---- MODULE Spec2Model ----
(***************************************************************************)
(* Model of the sqlite_wrapper header (SQLiteWrapper.h): the one-time      *)
(* engine configuration, the thread-local Connection, the per-(thread,     *)
(* database, query) PreparedStmtCache, Database::query and the QueryResult *)
(* cursor, together with the part of the SQLite engine they drive.         *)
(***************************************************************************)
EXTENDS Integers, Sequences, FiniteSets, TLC

\* ---------------------------------------------------------------- bounds
\* one thread working on a database that holds rows already (Spec)
MaxStmts   == 1      \* statements ever prepared (whole process)
MaxCursors == 1      \* QueryResult objects alive at the same time
MaxRows    == 3      \* rows in the table of one database
MaxFail    == 2      \* failed preparations of one cache
FaStmts    == 1      \* the same four bounds for the program of SpecFault
FaCursors  == 1
FaRows     == 1
FaAdv      == 1
MaxYield   == 2      \* yields of a busy handler that are told apart
BzStmts    == 2      \* the same four bounds for the program of SpecBusy
BzCursors  == 2
BzRows     == 2
BzAdv      == 1
MaxArgs    == 2      \* arguments of one query() call
MaxCols    == 2      \* columns of a row
MaxNest    == 2      \* std::optional layers around an argument or output
IntBits    == 3      \* width of sqlite3_int64 and of the 64-bit C++ integers
MaxAdv     == 3      \* advances of one cursor that return
\* one thread and its statement caches, the table staying empty (SpecCache)
CaStmts    == 2
CaCursors  == 2
CaRows     == 0
CaAdv      == 0
\* a program of several threads (SpecThreads), and one thread issuing its
\* queries one after the other (SpecSeq)
MtStmts    == 2
MtCursors  == 2
MtRows     == 1
MtAdv      == 1
\* two threads, cursors of one destroyed by the other (SpecHand)
HdStmts    == 2
HdCursors  == 2
HdRows     == 1
HdAdv      == 1
MaxUse     == 2      \* connections, or preparations, of one thread that
                     \* pass the declaration of one static
\* one thread and its transaction scopes (SpecTxn)
TxStmts    == 4
TxCursors  == 1
TxRows     == 2
TxAdv      == 1
\* one thread that uses two databases and ends (SpecExit)
ExStmts    == 2
ExCursors  == 1
ExRows     == 0
ExAdv      == 0
\* one thread assigning new cursors over a cursor (SpecLeak)
LkStmts    == 3
LkCursors  == 2
LkRows     == 1
LkAdv      == 1

\* ---------------------------------------------------------------- inputs
Threads == {"t1", "t2"}
DBs     == {"db1", "db2"}
Queries == {"select", "insert"}
\* begin_transaction_query, commit_transaction_query
TxnQueries == {"begin", "commit"}
Keys    == {"k1", "k2"}
InsertArgs == {<<"k1", "hello">>}
ArgsOf(q) == IF q = "select" THEN {<<k>> : k \in Keys} ELSE InsertArgs

MaxOf(a, b) == IF a >= b THEN a ELSE b
CursorIds ==
  1..MaxOf(MaxOf(MaxCursors, MaxOf(BzCursors, FaCursors)),
           MaxOf(MaxOf(CaCursors, MaxOf(HdCursors, ExCursors)),
                 MaxOf(MtCursors, LkCursors)))

NoStmt   == 0        \* nullptr (sqlite3_stmt *)
NoHandle == 0        \* no sqlite3 * / Connection not constructed
NoThread == "none"
NULL     == "NULL"

SQLITE_BUSY   == "SQLITE_BUSY"
SQLITE_OK     == "SQLITE_OK"
SQLITE_ROW    == "SQLITE_ROW"
SQLITE_DONE   == "SQLITE_DONE"
SQLITE_MISUSE == "SQLITE_MISUSE"
SQLITE_ERROR  == "SQLITE_ERROR"
SQLITE_CANTOPEN == "SQLITE_CANTOPEN"

VARIABLES
  sqlite3_configured,    \* detail::sqlite3_configured
  sqlite3_config_mutex,  \* detail::sqlite3_config_mutex: holder or NoThread
  configCount,           \* how many times the sqlite3_config() calls ran
  pc,                    \* position of each thread inside Connection()
  call,                  \* the query() call a thread is executing
  conn,                  \* thread_local Connection objects: db_handle
  handles,               \* handles opened by sqlite3_open, by handle id
  cache,                 \* thread_local PreparedStmtCache objects
  stmts,                 \* prepared statements, by handle id
  cursors,               \* QueryResult objects
  table,                 \* rows of table "test" of each database
  prepCount,             \* sqlite3_prepare_v3 calls of each cache
  tls,                   \* for each thread, its thread_local objects in
                         \* the order their construction completed, and
                         \* the engine calls their destructors made at
                         \* thread exit
  scope,                 \* the transaction scope of each thread: whether
                         \* the thread is inside one or how it left the
                         \* last one, and the keys inserted inside it
  liveMax,               \* for each cache, the largest number of cursors
                         \* holding a statement of its query at one time
  lastDtor,              \* calls made by ~QueryResult in the latest call
  lastErr,               \* sqlite::error thrown by the latest call
  outs,                  \* values last assigned to the output references
  autoreset,             \* engine build: sqlite3_step resets a halted stmt
  env,                   \* the program explored: its threads, its database
                         \* identities and the bounds of the exploration
  lock,                  \* write lock another process holds on each database
                         \* file, and the times a busy handler yielded to it
  lastOpen,              \* what the Connection constructor of the latest
                         \* call did after sqlite3_open
  pure,                  \* arguments, statement parameters, row and outputs
                         \* of one query followed through the dispatchers
  once                   \* the function-local statics saved_db_name and
                         \* saved_query_str of a program whose database
                         \* name and query texts are producer functions,
                         \* and the position of each thread at them

vars == <<sqlite3_configured, sqlite3_config_mutex, configCount, pc, call,
          conn, handles, cache, stmts, cursors, table, prepCount, liveMax, tls, scope, lastDtor,
          lastErr, outs, autoreset, env, lock, lastOpen, pure, once>>

\* The state the query path works on, as one record, so that the calls a
\* handler makes compose in order.
World == [conn |-> conn, handles |-> handles, cache |-> cache,
          stmts |-> stmts, cursors |-> cursors, table |-> table,
          prepCount |-> prepCount, liveMax |-> liveMax, tls |-> tls,
          scope |-> scope,
          lastDtor |-> lastDtor, lastErr |-> lastErr,
          outs |-> outs, lock |-> lock, lastOpen |-> lastOpen,
          blocked |-> FALSE]

\* The call ends and its effects become the state.  A call whose step is
\* waiting in the busy handler (blocked) has not ended.
Commit(w) ==
  /\ ~w.blocked
  /\ conn' = w.conn
  /\ handles' = w.handles
  /\ cache' = w.cache
  /\ stmts' = w.stmts
  /\ cursors' = w.cursors
  /\ table' = w.table
  /\ prepCount' = w.prepCount
  /\ liveMax' = w.liveMax
  /\ tls' = w.tls
  /\ scope' = w.scope
  /\ lastDtor' = w.lastDtor
  /\ lastErr' = w.lastErr
  /\ outs' = w.outs
  /\ lock' = w.lock
  /\ lastOpen' = w.lastOpen

\* ------------------------------------------------------- thread-locals
\* mutant: the Connection is a process-wide static, not thread_local
ConnectionShared(t, d) == <<"t1", d>>

connection_tls(t, d) == <<t, d>>
singleton_tls(t, d, q) == <<t, d, q>>

ConnKeys  == Threads \X DBs
CacheKeys == Threads \X DBs \X (Queries \cup TxnQueries)

NoCache == [constructed |-> FALSE, db_handle |-> NoHandle,
            first_free_stmt |-> NoStmt, other_free_stmts |-> <<>>]
NoCursor == [live |-> FALSE]
NoCall == [d |-> "none"]
NoDtor == [stmt |-> NoStmt, ops |-> <<>>, key |-> <<>>, was |-> "none"]
NoOpen == [ret |-> "none", key |-> <<>>, opens |-> 0,
           busy_handler |-> FALSE, hook |-> FALSE]
NoLock == [held |-> FALSE, yields |-> 0]
NoPure == [phase |-> "none"]
NoTls == [objs |-> <<>>, log |-> <<>>]
NoOnce == [producers |-> FALSE]
NoScope == [state |-> "none", d |-> "none", keys |-> {}]

\* ------------------------------------------------------------- engine
NumParams(q) == IF q = "select" THEN 1 ELSE IF q = "insert" THEN 2 ELSE 0
ColumnCount(q) == IF q = "select" THEN 2 ELSE 0
\* numbers of output references a caller passes to an advance
OutputCounts == {0, ColumnCount("select"), ColumnCount("select") + 1}

\* Rows of "select a, b from test where a = ?1": columns a, b, then the
\* rowid of the row, which is not a column of the result.
WithRowid(tbl) == [i \in 1..Len(tbl) |-> tbl[i] \o <<ToString(i)>>]
Select(tbl, k) == SelectSeq(WithRowid(tbl), LAMBDA r : r[1] = k)

sqlite3_column_count(w, s) ==
  IF s = NoStmt THEN 0 ELSE ColumnCount(w.stmts[s].query)

\* column idx (0-based) of the current row
sqlite3_column(w, s, idx) ==
  LET st == w.stmts[s] IN st.rows[st.pos][idx + 1]

\* the connection has a read transaction open: one of its statements is
\* on a row
ReadTxn(w, h) ==
  \E s \in 1..Len(w.stmts) :
    /\ w.stmts[s].db_handle = h
    /\ ~w.stmts[s].finalized
    /\ w.stmts[s].state = "row"

\* statement s is about to write and another process holds the write lock
Contended(w, s) ==
  /\ w.stmts[s].query = "insert"
  /\ w.stmts[s].state \in {"ready", "halt"}
  /\ w.lock[w.handles[w.stmts[s].db_handle].db].held

\* The engine meets the lock.  It calls the busy handler of the connection,
\* if one is installed, unless the connection already has a read
\* transaction open: waiting could then deadlock with the lock's holder and
\* the engine returns SQLITE_BUSY at once.  The handler of Connection()
\* yields and returns 1, so the engine tries again: the step is waiting.
sqlite3_busy(w, s) ==
  LET h == w.stmts[s].db_handle
      d == w.handles[h].db
  IN IF w.handles[h].busy_handler /\ ~ReadTxn(w, h)
     THEN [w |-> [w EXCEPT !.blocked = TRUE,
                           !.lock[d].yields = IF @ < MaxYield THEN @ + 1 ELSE @],
           rc |-> SQLITE_BUSY]
     ELSE [w |-> [w EXCEPT !.stmts[s].rc = SQLITE_BUSY], rc |-> SQLITE_BUSY]

\* A step of "begin transaction" or "commit transaction": begin inside a
\* transaction and commit without one fail with SQLITE_ERROR; otherwise the
\* connection leaves, or returns to, autocommit mode.
sqlite3_step_txn(w, s) ==
  LET st0  == w.stmts[s]
      h    == st0.db_handle
      open == w.handles[h].txn
      ok   == IF st0.query = "begin" THEN ~open ELSE open
      rc   == IF ok THEN SQLITE_DONE ELSE SQLITE_ERROR
  IN [w |-> [w EXCEPT !.stmts[s].state = "halt", !.stmts[s].rc = rc,
                      !.handles[h].txn = IF ok THEN ~open ELSE open],
      rc |-> rc]

sqlite3_step(w, s) ==
  IF s = NoStmt THEN [w |-> w, rc |-> SQLITE_MISUSE]
  ELSE
    LET st0 == w.stmts[s]
        d   == w.handles[st0.db_handle].db
    IN IF st0.state = "halt" /\ ~autoreset
       THEN [w |-> [w EXCEPT !.stmts[s].rc = SQLITE_MISUSE],
             rc |-> SQLITE_MISUSE]
       ELSE IF Contended(w, s)
       THEN sqlite3_busy(w, s)
       ELSE IF st0.query \in TxnQueries
       THEN sqlite3_step_txn(w, s)
       ELSE
         LET fresh  == st0.state \in {"ready", "halt"}
             tbl1   == IF fresh /\ st0.query = "insert"
                       THEN Append(w.table[d], st0.bind)
                       ELSE w.table[d]
             rows1  == IF fresh
                       THEN (IF st0.query = "select"
                             THEN Select(w.table[d], st0.bind[1])
                             ELSE <<>>)
                       ELSE st0.rows
             pos0   == IF fresh THEN 0 ELSE st0.pos
             hasRow == pos0 < Len(rows1)
             st1    == [st0 EXCEPT !.rows = rows1,
                                   !.pos = IF hasRow THEN pos0 + 1 ELSE pos0,
                                   !.state = IF hasRow THEN "row" ELSE "halt",
                                   !.rc = IF hasRow THEN SQLITE_ROW
                                                    ELSE SQLITE_DONE]
         IN [w |-> [w EXCEPT !.stmts[s] = st1, !.table[d] = tbl1],
             rc |-> IF hasRow THEN SQLITE_ROW ELSE SQLITE_DONE]

sqlite3_clear_bindings(w, s) ==
  [w EXCEPT !.stmts[s].bind = [i \in 1..NumParams(w.stmts[s].query) |-> NULL],
            !.stmts[s].storage = "none",
            !.stmts[s].late = "none"]

sqlite3_reset(w, s) ==
  [w EXCEPT !.stmts[s].state = "ready", !.stmts[s].pos = 0,
            !.stmts[s].rows = <<>>, !.stmts[s].rc = "none"]

\* the statements of connection h that are not finalized
Unfinalized(w, h) ==
  {s \in 1..Len(w.stmts) : w.stmts[s].db_handle = h /\ ~w.stmts[s].finalized}

\* sqlite3_finalize(nullptr) is a harmless no-op.  Finalizing the last
\* statement of a connection whose close was deferred closes it.
sqlite3_finalize(w, s) ==
  IF s = NoStmt THEN w
  ELSE LET h  == w.stmts[s].db_handle
           w1 == [w EXCEPT !.stmts[s].finalized = TRUE]
       IN IF w.handles[h].close = "zombie" /\ Unfinalized(w1, h) = {}
          THEN [w1 EXCEPT !.handles[h].close = "closed"]
          ELSE w1

\* sqlite3_close_v2: with statements not finalized the handle becomes a
\* zombie and the close is deferred until the last of them is finalized
sqlite3_close_v2(w, h) ==
  [w EXCEPT !.handles[h].close =
     IF Unfinalized(w, h) = {} THEN "closed" ELSE "zombie"]

\* ------------------------------------------------ PreparedStmtCache
\* PreparedStmtCache(): the instance is constructed on the first call of
\* singleton_tls() by the thread and captures the thread's db_handle.
PreparedStmtCache(w, t, key) ==
  IF w.cache[key].constructed THEN w
  ELSE [w EXCEPT !.cache[key] =
          [constructed |-> TRUE,
           db_handle |-> w.conn[connection_tls(t, key[2])],
           first_free_stmt |-> NoStmt, other_free_stmts |-> <<>>],
                 !.tls[t].objs = Append(@, [kind |-> "PreparedStmtCache",
                                            key |-> key])]

\* sqlite3_prepare_v3 on the cache's db_handle
NewStmt(w, key) ==
  [db_handle |-> w.cache[key].db_handle, query |-> key[3],
   bind |-> [i \in 1..NumParams(key[3]) |-> NULL],
   state |-> "ready", rows |-> <<>>, pos |-> 0, finalized |-> FALSE,
   home |-> key, storage |-> "none", late |-> "none", rc |-> "none"]

\* TRUE when internal_get has to prepare a new statement
CacheEmpty(w, key) ==
  /\ w.cache[key].first_free_stmt = NoStmt
  /\ w.cache[key].other_free_stmts = <<>>

\* mutant: the distinguished slot keeps the statement it hands out
InternalGetKeepsSlot(w, key, ret) ==
  LET c == w.cache[key] IN
  IF c.first_free_stmt # NoStmt
  THEN [w |-> w, stmt |-> c.first_free_stmt, thrown |-> FALSE]
  ELSE IF ret # SQLITE_OK
  THEN [w |-> [w EXCEPT !.prepCount[key] = @ + 1, !.lastErr = ret],
        stmt |-> NoStmt, thrown |-> TRUE]
  ELSE [w |-> [w EXCEPT !.stmts = Append(@, NewStmt(w, key)),
                        !.prepCount[key] = @ + 1],
        stmt |-> Len(w.stmts) + 1, thrown |-> FALSE]

\* mutant: the statement of a failed preparation is put in the slot before
\* the result is tested
InternalGetStoresFailed(w, key, ret) ==
  LET c == w.cache[key] IN
  IF c.first_free_stmt # NoStmt
  THEN [w |-> [w EXCEPT !.cache[key].first_free_stmt = NoStmt],
        stmt |-> c.first_free_stmt, thrown |-> FALSE]
  ELSE IF c.other_free_stmts # <<>>
  THEN [w |-> [w EXCEPT !.cache[key].other_free_stmts =
                          SubSeq(@, 1, Len(@) - 1)],
        stmt |-> c.other_free_stmts[Len(c.other_free_stmts)],
        thrown |-> FALSE]
  ELSE IF ret # SQLITE_OK
  THEN [w |-> [w EXCEPT !.stmts = Append(@, NewStmt(w, key)),
                        !.cache[key].first_free_stmt = Len(w.stmts) + 1,
                        !.prepCount[key] = @ + 1, !.lastErr = ret],
        stmt |-> NoStmt, thrown |-> TRUE]
  ELSE [w |-> [w EXCEPT !.stmts = Append(@, NewStmt(w, key)),
                        !.prepCount[key] = @ + 1],
        stmt |-> Len(w.stmts) + 1, thrown |-> FALSE]

\* internal_get(): ret is what sqlite3_prepare_v3 returns when the cache has
\* no free statement; a result other than SQLITE_OK is thrown as error{ret}
\* and neither the slot nor the list is touched.  thrown tells the caller
\* that the exception leaves it.
internal_get(w, key, ret) ==
  LET c == w.cache[key] IN
  IF c.first_free_stmt # NoStmt
  THEN [w |-> [w EXCEPT !.cache[key].first_free_stmt = NoStmt],
        stmt |-> c.first_free_stmt, thrown |-> FALSE]
  ELSE IF c.other_free_stmts # <<>>
  THEN [w |-> [w EXCEPT !.cache[key].other_free_stmts =
                          SubSeq(@, 1, Len(@) - 1)],
        stmt |-> c.other_free_stmts[Len(c.other_free_stmts)],
        thrown |-> FALSE]
  ELSE IF ret # SQLITE_OK
  THEN [w |-> [w EXCEPT !.prepCount[key] = @ + 1, !.lastErr = ret],
        stmt |-> NoStmt, thrown |-> TRUE]
  ELSE [w |-> [w EXCEPT !.stmts = Append(@, NewStmt(w, key)),
                        !.prepCount[key] = @ + 1],
        stmt |-> Len(w.stmts) + 1, thrown |-> FALSE]

internal_put(w, key, s) ==
  IF w.cache[key].first_free_stmt = NoStmt
  THEN [w EXCEPT !.cache[key].first_free_stmt = s]
  ELSE [w EXCEPT !.cache[key].other_free_stmts = Append(@, s)]

get_tls(w, t, d, q, ret) ==
  LET key == singleton_tls(t, d, q)
  IN internal_get(PreparedStmtCache(w, t, key), key, ret)

\* put_tls of PreparedStmtCache<q> of Database<d>, run by thread t
put_tls(w, t, d, q, s) ==
  LET key == singleton_tls(t, d, q)
  IN internal_put(PreparedStmtCache(w, t, key), key, s)

\* ------------------------------------------------------------ thread exit
\* ~PreparedStmtCache(): sqlite3_finalize(first_free_stmt), then the
\* statements of other_free_stmts in order
CacheDtorCalls(w, key) ==
  <<w.cache[key].first_free_stmt>> \o w.cache[key].other_free_stmts

RECURSIVE FinalizeAll(_, _, _, _)
FinalizeAll(w, t, key, ss) ==
  IF ss = <<>> THEN w
  ELSE FinalizeAll([sqlite3_finalize(w, Head(ss))
                      EXCEPT !.tls[t].log =
                               Append(@, [op |-> "sqlite3_finalize",
                                          key |-> key, arg |-> Head(ss)])],
                   t, key, Tail(ss))

PreparedStmtCacheDtor(w, t, key) ==
  [FinalizeAll(w, t, key, CacheDtorCalls(w, key)) EXCEPT !.cache[key] = NoCache]

\* ~Connection(): sqlite3_close_v2(db_handle)
ConnectionDtor(w, t, key) ==
  [sqlite3_close_v2(w, w.conn[key])
     EXCEPT !.tls[t].log = Append(@, [op |-> "sqlite3_close_v2",
                                      key |-> key, arg |-> w.conn[key]]),
            !.conn[key] = NoHandle]

\* mutant: the thread_local objects are destroyed in the order of their
\* construction
ThreadExitOrderForward(objs) == objs

\* The destructors of thread_local objects run at thread exit in the
\* reverse order of the completion of their constructors.
ThreadExitOrder(objs) == [i \in 1..Len(objs) |-> objs[Len(objs) + 1 - i]]

RECURSIVE RunDtors(_, _, _)
RunDtors(w, t, objs) ==
  IF objs = <<>> THEN w
  ELSE RunDtors(IF Head(objs).kind = "Connection"
                THEN ConnectionDtor(w, t, Head(objs).key)
                ELSE PreparedStmtCacheDtor(w, t, Head(objs).key),
                t, Tail(objs))

thread_exit(w, t) ==
  [RunDtors(w, t, ThreadExitOrder(w.tls[t].objs)) EXCEPT !.tls[t].objs = <<>>]

\* ------------------------------------------------------ Database::query
\* bind_dispatcher over the arguments: argument i goes to parameter i.  The
\* texts are bound with SQLITE_STATIC: the statement keeps pointers into
\* the storage of the arguments (storage), here the caller's, and a step
\* that runs the statement reads the parameters through them.  late is the
\* storage that steps made after query() returned have read.
BindArgs(w, s, args) ==
  [w EXCEPT !.stmts[s].bind = args,
            !.stmts[s].storage = "caller",
            !.stmts[s].late = "none"]

\* the cursors that hold a statement prepared for the cache key
CursorsOf(w, key) ==
  {c \in CursorIds : /\ w.cursors[c].live
                     /\ w.cursors[c].stmt # NoStmt
                     /\ w.stmts[w.cursors[c].stmt].home = key}

\* mutant: the constructor does not step the statement
QueryResultCtorNoStep(w, t, c, s, cb) ==
  [w EXCEPT !.cursors[c] =
     [live |-> TRUE, owner |-> t,
      stmt |-> s, put_cb |-> cb, ret |-> SQLITE_DONE, first_invocation |-> TRUE,
      result |-> <<>>, advs |-> <<>>, nsteps |-> 0]]

\* QueryResult(stmt_, put_cb_): constructs cursor object c of thread t
QueryResultCtor(w, t, c, s, cb) ==
  LET r  == sqlite3_step(w, s)
      w1 == [r.w EXCEPT !.cursors[c] =
               [live |-> TRUE, owner |-> t,
                stmt |-> s, put_cb |-> cb, ret |-> r.rc,
                first_invocation |-> TRUE,
                result |-> r.w.stmts[s].rows, advs |-> <<>>, nsteps |-> 1]]
      key == w.stmts[s].home
  IN [w1 EXCEPT !.liveMax[key] = MaxOf(@, Cardinality(CursorsOf(w1, key)))]

\* query(): ret is the result of the sqlite3_prepare_v3 call that get_tls
\* makes if it has to; an exception of get_tls leaves query() before
\* anything is bound and before a QueryResult exists
query(w, t, d, q, args, c, ret) ==
  LET g  == get_tls(w, t, d, q, ret)
      w1 == BindArgs(g.w, g.stmt, args)
  IN IF g.thrown THEN g.w
     ELSE QueryResultCtor(w1, t, c, g.stmt, <<d, q>>)

\* query() on arguments of a type with a user_serialize_fn: the converted
\* values are temporaries of the expression
\* "return query<query_str>(maybe_serialize(bind_args)...)", bound by the
\* inner query() and destroyed when it has returned
query_serialized(w, t, d, q, args, c, ret) ==
  LET w1 == query(w, t, d, q, args, c, ret)
  IN IF w1.lastErr # "none" THEN w1
     ELSE [w1 EXCEPT !.stmts[w1.cursors[c].stmt].storage = "freed"]

\* ---------------------------------------------------------- QueryResult
resultCode(w, c) == w.cursors[c].ret

\* operator=(QueryResult &&other): this is c1, other is c2.  The record of
\* the execution (result, advs, nsteps) follows the statement.
MoveAssign(w, c1, c2) ==
  IF c1 = c2 THEN w
  ELSE LET o == w.cursors[c2] IN
       [w EXCEPT !.cursors[c1].stmt = o.stmt,
                 !.cursors[c1].ret = o.ret,
                 !.cursors[c1].first_invocation = o.first_invocation,
                 !.cursors[c1].put_cb = o.put_cb,
                 !.cursors[c1].result = o.result,
                 !.cursors[c1].advs = o.advs,
                 !.cursors[c1].nsteps = o.nsteps,
                 !.cursors[c2].stmt = NoStmt,
                 !.cursors[c2].result = <<>>,
                 !.cursors[c2].advs = <<>>,
                 !.cursors[c2].nsteps = 0]

\* mutant: the destructor does not reset the statement
DtorBodyNoReset == <<"sqlite3_clear_bindings", "put_cb">>

\* The calls of ~QueryResult on a held statement, in order.
QueryResultDtorBody ==
  <<"sqlite3_clear_bindings", "sqlite3_reset", "put_cb">>

DtorCall(w, t, cur, op) ==
  LET w1 == [w EXCEPT !.lastDtor.ops = Append(@, op)] IN
  CASE op = "sqlite3_clear_bindings" -> sqlite3_clear_bindings(w1, cur.stmt)
    [] op = "sqlite3_reset"          -> sqlite3_reset(w1, cur.stmt)
    [] op = "sqlite3_finalize"       -> sqlite3_finalize(w1, cur.stmt)
    [] op = "put_cb" ->
         [put_tls(w1, t, cur.put_cb[1], cur.put_cb[2], cur.stmt)
            EXCEPT !.lastDtor.key = singleton_tls(t, cur.put_cb[1], cur.put_cb[2])]

RECURSIVE DtorRun(_, _, _, _)
DtorRun(w, t, cur, ops) ==
  IF ops = <<>> THEN w
  ELSE DtorRun(DtorCall(w, t, cur, Head(ops)), t, cur, Tail(ops))

\* ~QueryResult() of cursor c, run by thread t
QueryResultDtor(w, t, c) ==
  LET cur == w.cursors[c]
      w0  == [w EXCEPT !.cursors[c] = NoCursor]
  IN IF cur.stmt = NoStmt THEN w0
     ELSE DtorRun([w0 EXCEPT !.lastDtor =
                               [NoDtor EXCEPT !.stmt = cur.stmt,
                                              !.was = w.stmts[cur.stmt].state]],
                  t, cur, QueryResultDtorBody)

\* if (sizeof...(args) > sqlite3_column_count(stmt))
ColumnGuard(w, cur, m) == m > sqlite3_column_count(w, cur.stmt)

\* mutant: every advance steps
NeedsStepAlways(cur) == TRUE

\* if (!first_invocation) ret = sqlite3_step(stmt);
NeedsStep(cur) == ~cur.first_invocation

\* a step that runs the statement evaluates its parameters
ReadsParams(rc) == rc \in {SQLITE_ROW, SQLITE_DONE}

\* the step of an advance, made after query() has returned
LateStep(w, s) ==
  LET r == sqlite3_step(w, s) IN
  IF s # NoStmt /\ ReadsParams(r.rc) /\ w.stmts[s].storage # "none"
  THEN [w |-> [r.w EXCEPT !.stmts[s].late = w.stmts[s].storage], rc |-> r.rc]
  ELSE r

\* mutant: a step that ends with an error code throws it
StepIfNeededThrows(w, c) ==
  LET cur == w.cursors[c] IN
  IF NeedsStep(cur)
  THEN LET r == LateStep(w, cur.stmt)
       IN [r.w EXCEPT !.cursors[c].ret = r.rc,
                      !.cursors[c].nsteps = IF cur.stmt = NoStmt THEN 0 ELSE @ + 1,
                      !.lastErr = IF r.rc \in {SQLITE_ROW, SQLITE_DONE}
                                  THEN @ ELSE r.rc]
  ELSE w

StepIfNeeded(w, c) ==
  LET cur == w.cursors[c] IN
  IF NeedsStep(cur)
  THEN LET r == LateStep(w, cur.stmt)
       IN [r.w EXCEPT !.cursors[c].ret = r.rc,
                      !.cursors[c].nsteps = IF cur.stmt = NoStmt THEN 0 ELSE @ + 1]
  ELSE w

\* mutant: first_invocation is never cleared
AfterRowStays(cur) == TRUE

\* first_invocation after a row has been delivered
AfterRow(cur) == FALSE

\* if (ret != SQLITE_ROW) return false; otherwise the column_dispatcher
\* fills output j from column j - 1, and the advance returns true.
Deliver(w, c, m) ==
  LET cur  == w.cursors[c]
      held == cur.stmt # NoStmt
  IN IF cur.ret # SQLITE_ROW
     THEN [w EXCEPT !.cursors[c].advs =
             IF held THEN Append(@, [ret |-> FALSE, row |-> <<>>]) ELSE @]
     ELSE [w EXCEPT
             !.outs = [j \in 1..m |-> sqlite3_column(w, cur.stmt, j - 1)],
             !.cursors[c].first_invocation = AfterRow(cur),
             !.cursors[c].advs =
               IF held
               THEN Append(@, [ret |-> TRUE,
                               row |-> w.stmts[cur.stmt].rows[w.stmts[cur.stmt].pos]])
               ELSE @]

\* mutant: the column-count guard is tested after the step
AdvanceGuardLate(w, t, c, m) ==
  LET w1 == StepIfNeeded(w, c) IN
  IF ColumnGuard(w1, w1.cursors[c], m)
  THEN [w1 EXCEPT !.lastErr = SQLITE_ERROR]
  ELSE Deliver(w1, c, m)

\* operator()(args...) with m output references: the column-count guard
\* comes first, then the step, then the columns.
Advance(w, t, c, m) ==
  IF ColumnGuard(w, w.cursors[c], m)
  THEN [w EXCEPT !.lastErr = SQLITE_ERROR]
  ELSE Deliver(StepIfNeeded(w, c), c, m)

\* ------------------------------------------------------------ states
Start ==
  /\ sqlite3_configured = FALSE
  /\ sqlite3_config_mutex = NoThread
  /\ configCount = 0
  /\ pc = [t \in Threads |-> "idle"]
  /\ call = [t \in Threads |-> NoCall]
  /\ conn = [k \in ConnKeys |-> NoHandle]
  /\ handles = <<>>
  /\ cache = [k \in CacheKeys |-> NoCache]
  /\ stmts = <<>>
  /\ cursors = [c \in CursorIds |-> NoCursor]
  /\ prepCount = [k \in CacheKeys |-> 0]
  /\ liveMax = [k \in CacheKeys |-> 0]
  /\ tls = [t \in Threads |-> NoTls]
  /\ scope = [t \in Threads |-> NoScope]
  /\ lastDtor = NoDtor
  /\ lastErr = "none"
  /\ outs = <<>>
  /\ lock = [d \in DBs |-> NoLock]
  /\ lastOpen = NoOpen

\* a program whose database name and query texts are string literals
Literal == once = NoOnce

\* Rows a database file holds when the program starts: row i of table
\* "test", columns a and b.
Stored(i) == <<IF i = 1 THEN "k2" ELSE "k1", ToString(i)>>
StoredRows(n) == [i \in 1..n |-> Stored(i)]

\* a program with one thread and one database file that holds rows already
Init ==
  /\ Start
  /\ Literal
  /\ pure = NoPure
  /\ autoreset \in BOOLEAN
  /\ env = [threads |-> {"t1"}, dbs |-> {"db1"}, stmts |-> MaxStmts,
            cursors |-> MaxCursors, rows |-> MaxRows, adv |-> MaxAdv]
  /\ \E n \in 0..MaxRows :
       table = [d \in DBs |-> IF d = "db1" THEN StoredRows(n) ELSE <<>>]

\* a program with one thread and one database whose table starts empty
InitCache ==
  /\ Start
  /\ Literal
  /\ pure = NoPure
  /\ autoreset = TRUE
  /\ env = [threads |-> {"t1"}, dbs |-> {"db1"}, stmts |-> CaStmts,
            cursors |-> CaCursors, rows |-> CaRows, adv |-> CaAdv]
  /\ table = [d \in DBs |-> <<>>]

\* one thread and one database whose table starts empty, as in the
\* repository's tests
InitSeq ==
  /\ Start
  /\ Literal
  /\ pure = NoPure
  /\ autoreset \in BOOLEAN
  /\ env = [threads |-> {"t1"}, dbs |-> {"db1"}, stmts |-> MtStmts,
            cursors |-> MtCursors, rows |-> MtRows, adv |-> MtAdv]
  /\ table = [d \in DBs |-> <<>>]

\* a program with two threads and two database identities
InitThreads ==
  /\ Start
  /\ Literal
  /\ pure = NoPure
  /\ autoreset = TRUE
  /\ table = [d \in DBs |-> <<>>]
  /\ env = [threads |-> Threads, dbs |-> DBs, stmts |-> MtStmts,
            cursors |-> MtCursors, rows |-> MtRows, adv |-> MtAdv]

\* one thread and one database whose table starts empty; some of the
\* program's preparations fail
InitFault ==
  /\ Start
  /\ Literal
  /\ pure = NoPure
  /\ autoreset = TRUE
  /\ env = [threads |-> {"t1"}, dbs |-> {"db1"}, stmts |-> FaStmts,
            cursors |-> FaCursors, rows |-> FaRows, adv |-> FaAdv]
  /\ table = [d \in DBs |-> <<>>]

\* one thread and a database file that holds one row and is shared with
\* another process
InitBusy ==
  /\ Start
  /\ Literal
  /\ pure = NoPure
  /\ autoreset = TRUE
  /\ env = [threads |-> {"t1"}, dbs |-> {"db1"}, stmts |-> BzStmts,
            cursors |-> BzCursors, rows |-> BzRows, adv |-> BzAdv]
  /\ table = [d \in DBs |-> IF d = "db1" THEN StoredRows(1) ELSE <<>>]

FreeCursors == {c \in 1..env.cursors : ~cursors[c].live}
NewCursor == CHOOSE c \in FreeCursors : \A c2 \in FreeCursors : c <= c2

\* What a query<q>(args) call of thread t on database d needs in order to
\* stay inside the bounds of the model.
CanQuery(t, d, q) ==
  /\ FreeCursors # {}
  /\ (cache[singleton_tls(t, d, q)].constructed
        => (CacheEmpty(World, singleton_tls(t, d, q)) => Len(stmts) < env.stmts))
  /\ (~cache[singleton_tls(t, d, q)].constructed => Len(stmts) < env.stmts)
  /\ (q = "insert" => Len(table[d]) < env.rows)

\* a call starts: nothing thrown, no destructor run yet
Enter(w) == [w EXCEPT !.lastErr = "none", !.lastDtor = NoDtor,
                      !.lastOpen = NoOpen]

\* ----------------------------------------- Connection::Connection(void)
\* mutant: the constructor does not take the mutex
ConfigLockNoMutex(t, d) ==
  /\ pc[t] = "idle"
  /\ conn[connection_tls(t, d)] = NoHandle
  /\ pc' = [pc EXCEPT ![t] = "check"]
  /\ call' = [call EXCEPT ![t] = [d |-> d]]
  /\ UNCHANGED <<sqlite3_configured, sqlite3_config_mutex, configCount, conn,
                 handles, cache, stmts, cursors, table, prepCount, liveMax, tls, scope, lastDtor,
                 lastErr, outs, autoreset, env,
                 lock, lastOpen, pure, once>>

\* query() of a thread that has no Connection for d yet: connection_tls()
\* runs the constructor, which starts by taking sqlite3_config_mutex.
ConfigLock(t, d) ==
  /\ pc[t] = "idle"
  /\ conn[connection_tls(t, d)] = NoHandle
  /\ sqlite3_config_mutex = NoThread
  /\ sqlite3_config_mutex' = t
  /\ pc' = [pc EXCEPT ![t] = "check"]
  /\ call' = [call EXCEPT ![t] = [d |-> d]]
  /\ UNCHANGED <<sqlite3_configured, configCount, conn, handles, cache, stmts,
                 cursors, table, prepCount, liveMax, tls, scope, lastDtor, lastErr, outs, autoreset,
                 env,
                 lock, lastOpen, pure, once>>

\* if (!detail::sqlite3_configured)
ConfigCheck(t) ==
  /\ pc[t] = "check"
  /\ pc' = [pc EXCEPT ![t] = IF sqlite3_configured THEN "unlock" ELSE "config"]
  /\ UNCHANGED <<sqlite3_configured, sqlite3_config_mutex, configCount, call,
                 conn, handles, cache, stmts, cursors, table, prepCount, liveMax, tls, scope,
                 lastDtor, lastErr, outs, autoreset, env,
                 lock, lastOpen, pure, once>>

\* sqlite3_config(...); sqlite3_config(...); sqlite3_configured = true;
ConfigApply(t) ==
  /\ pc[t] = "config"
  /\ configCount' = configCount + 1
  /\ sqlite3_configured' = TRUE
  /\ pc' = [pc EXCEPT ![t] = "unlock"]
  /\ UNCHANGED <<sqlite3_config_mutex, call, conn, handles, cache, stmts,
                 cursors, table, prepCount, liveMax, tls, scope, lastDtor, lastErr, outs, autoreset,
                 env,
                 lock, lastOpen, pure, once>>

\* end of the lock_guard scope
ConfigUnlock(t) ==
  /\ pc[t] = "unlock"
  /\ sqlite3_config_mutex' = IF sqlite3_config_mutex = t THEN NoThread
                             ELSE sqlite3_config_mutex
  /\ pc' = [pc EXCEPT ![t] = "open"]
  /\ UNCHANGED <<sqlite3_configured, configCount, call, conn, handles, cache,
                 stmts, cursors, table, prepCount, liveMax, tls, scope, lastDtor, lastErr,
                 outs, autoreset, env,
                 lock, lastOpen, pure, once>>

\* Database::post_connection_hook: the program has set one
post_connection_hook == TRUE

\* sqlite3_open succeeded: the Connection exists, with the busy handler
\* installed on its handle and the hook run on it
Connected(w, t, d) ==
  [w EXCEPT !.handles = Append(@, [db |-> d, opener |-> t,
                                   cfg |-> configCount,
                                   busy_handler |-> TRUE,
                                   hook |-> post_connection_hook,
                                   close |-> "open", txn |-> FALSE]),
            !.conn[connection_tls(t, d)] = Len(w.handles) + 1,
            !.tls[t].objs = Append(@, [kind |-> "Connection",
                                       key |-> connection_tls(t, d)]),
            !.lastOpen.busy_handler = TRUE,
            !.lastOpen.hook = post_connection_hook]

\* mutant: the busy handler is installed before the result is tested
ConnectionOpenHandlerFirst(w, t, d, ret) ==
  LET w1 == [w EXCEPT !.lastOpen =
               [ret |-> ret, key |-> connection_tls(t, d),
                opens |-> w.lastOpen.opens + 1,
                busy_handler |-> TRUE, hook |-> FALSE]]
  IN IF ret # SQLITE_OK
     THEN [w1 EXCEPT !.lastErr = ret]
     ELSE Connected(w1, t, d)

\* The Connection constructor from sqlite3_open on, ret being what
\* sqlite3_open returns: throw error{ret}, or install the busy handler and
\* run the hook.
ConnectionOpen(w, t, d, ret) ==
  LET w1 == [w EXCEPT !.lastOpen =
               [ret |-> ret, key |-> connection_tls(t, d),
                opens |-> w.lastOpen.opens + 1,
                busy_handler |-> FALSE, hook |-> FALSE]]
  IN IF ret # SQLITE_OK
     THEN [w1 EXCEPT !.lastErr = ret]
     ELSE Connected(w1, t, d)

\* sqlite3_open succeeds; the query() call that made the connection goes on
Open(t, q, args) ==
  /\ pc[t] = "open"
  /\ q \in Queries /\ args \in ArgsOf(q)
  /\ CanQuery(t, call[t].d, q)
  /\ Commit(query(ConnectionOpen(Enter(World), t, call[t].d, SQLITE_OK),
                  t, call[t].d, q, args, NewCursor, SQLITE_OK))
  /\ pc' = [pc EXCEPT ![t] = "idle"]
  /\ call' = [call EXCEPT ![t] = NoCall]
  /\ UNCHANGED <<sqlite3_configured, sqlite3_config_mutex, configCount,
                 autoreset, env, pure, once>>

\* sqlite3_open fails: throw error{ret}; the thread_local stays unconstructed
\* and the exception leaves query()
OpenFail(t) ==
  /\ pc[t] = "open"
  /\ Commit(ConnectionOpen(Enter(World), t, call[t].d, SQLITE_CANTOPEN))
  /\ pc' = [pc EXCEPT ![t] = "idle"]
  /\ call' = [call EXCEPT ![t] = NoCall]
  /\ UNCHANGED <<sqlite3_configured, sqlite3_config_mutex, configCount,
                 autoreset, env, pure, once>>

\* ------------------------------------------------- operations of a thread
\* query<q>(args) of a thread whose Connection for d exists
Query(t, d, q, args) ==
  /\ pc[t] = "idle"
  /\ conn[connection_tls(t, d)] # NoHandle
  /\ CanQuery(t, d, q)
  /\ Commit(query(Enter(World), t, d, q, args, NewCursor, SQLITE_OK))
  /\ UNCHANGED <<sqlite3_configured, sqlite3_config_mutex, configCount, pc,
                 call, autoreset, env,
                 pure, once>>

\* c(args...) with m output references; the advances that return are the
\* ones counted against the bound, one that throws is always possible
Step(t, c, m) ==
  /\ pc[t] = "idle"
  /\ cursors[c].live /\ cursors[c].owner = t
  /\ ColumnGuard(World, cursors[c], m) \/ Len(cursors[c].advs) < env.adv
  /\ Commit(Advance(Enter(World), t, c, m))
  /\ UNCHANGED <<sqlite3_configured, sqlite3_config_mutex, configCount, pc,
                 call, autoreset, env,
                 pure, once>>

\* c1 = std::move(c2)
Assign(t, c1, c2) ==
  /\ pc[t] = "idle"
  /\ cursors[c1].live /\ cursors[c1].owner = t
  /\ cursors[c2].live /\ cursors[c2].owner = t
  /\ Commit(MoveAssign(Enter(World), c1, c2))
  /\ UNCHANGED <<sqlite3_configured, sqlite3_config_mutex, configCount, pc,
                 call, autoreset, env,
                 pure, once>>

\* cursor c goes out of scope
Destroy(t, c) ==
  /\ pc[t] = "idle"
  /\ cursors[c].live /\ cursors[c].owner = t
  /\ Commit(QueryResultDtor(Enter(World), t, c))
  /\ UNCHANGED <<sqlite3_configured, sqlite3_config_mutex, configCount, pc,
                 call, autoreset, env,
                 pure, once>>

\* db::query<q>(args); as a statement: the temporary cursor is destroyed at
\* the end of the full expression.  No cursor holds a statement of q.
QueryStmt(t, d, q, args) ==
  /\ pc[t] = "idle"
  /\ conn[connection_tls(t, d)] # NoHandle
  /\ CanQuery(t, d, q)
  /\ \A c \in CursorIds :
       (cursors[c].live /\ cursors[c].stmt # NoStmt)
         => stmts[cursors[c].stmt].home # singleton_tls(t, d, q)
  /\ Commit(QueryResultDtor(query(Enter(World), t, d, q, args, NewCursor,
                                  SQLITE_OK),
                            t, NewCursor))
  /\ UNCHANGED <<sqlite3_configured, sqlite3_config_mutex, configCount, pc,
                 call, autoreset, env,
                 pure, once>>

\* fetch_row = db::query<q>(args); the new cursor is a temporary that is
\* move-assigned over cursor c and then destroyed.
QueryAssign(t, c, d, q, args) ==
  /\ pc[t] = "idle"
  /\ conn[connection_tls(t, d)] # NoHandle
  /\ CanQuery(t, d, q)
  /\ cursors[c].live /\ cursors[c].owner = t
  /\ Commit(QueryResultDtor(
              MoveAssign(query(Enter(World), t, d, q, args, NewCursor,
                               SQLITE_OK),
                         c, NewCursor),
              t, NewCursor))
  /\ UNCHANGED <<sqlite3_configured, sqlite3_config_mutex, configCount, pc,
                 call, autoreset, env,
                 pure, once>>

\* db::QueryResult fetch_row = db::query<q>(args); with no other cursor alive
QueryDeclare(t, d, q, args) ==
  /\ \A c \in CursorIds : ~cursors[c].live
  /\ Query(t, d, q, args)

Next ==
  \/ \E t \in env.threads, d \in env.dbs : ConfigLock(t, d)
  \/ \E t \in env.threads : ConfigCheck(t)
  \/ \E t \in env.threads : ConfigApply(t)
  \/ \E t \in env.threads : ConfigUnlock(t)
  \/ \E t \in env.threads, q \in Queries : \E args \in ArgsOf(q) : Open(t, q, args)
  \/ \E t \in env.threads : OpenFail(t)
  \/ \E t \in env.threads, d \in env.dbs, q \in Queries :
       \E args \in ArgsOf(q) : Query(t, d, q, args)
  \/ \E t \in env.threads, c \in CursorIds, m \in OutputCounts : Step(t, c, m)
  \/ \E t \in env.threads, c1 \in CursorIds, c2 \in CursorIds : Assign(t, c1, c2)
  \/ \E t \in env.threads, c \in CursorIds : Destroy(t, c)

Spec == Init /\ [][Next]_vars
SpecCache == InitCache /\ [][Next]_vars
SpecThreads == InitThreads /\ [][Next]_vars

\* One thread issuing its queries one after the other, as the repository's
\* tests do: at most one cursor variable, and temporaries.
NextSeq ==
  \/ \E t \in env.threads, d \in env.dbs : ConfigLock(t, d)
  \/ \E t \in env.threads : ConfigCheck(t)
  \/ \E t \in env.threads : ConfigApply(t)
  \/ \E t \in env.threads : ConfigUnlock(t)
  \/ \E t \in env.threads, q \in Queries : \E args \in ArgsOf(q) : Open(t, q, args)
  \/ \E t \in env.threads : OpenFail(t)
  \/ \E t \in env.threads, d \in env.dbs, q \in Queries :
       \E args \in ArgsOf(q) : QueryDeclare(t, d, q, args)
  \/ \E t \in env.threads, d \in env.dbs, q \in Queries :
       \E args \in ArgsOf(q) : QueryStmt(t, d, q, args)
  \/ \E t \in env.threads, c \in CursorIds, d \in env.dbs, q \in Queries :
       \E args \in ArgsOf(q) : QueryAssign(t, c, d, q, args)
  \/ \E t \in env.threads, c \in CursorIds, m \in OutputCounts : Step(t, c, m)
  \/ \E t \in env.threads, c \in CursorIds : Destroy(t, c)

SpecSeq == InitSeq /\ [][NextSeq]_vars

\* ----------------------------------------------------------- transactions
\* query<q>(args) as a statement of its own: the temporary cursor is
\* destroyed at the end of the full expression
query_discard(w, t, d, q, args) ==
  QueryResultDtor(query(w, t, d, q, args, NewCursor, SQLITE_OK), t, NewCursor)

\* beginTransaction(): query<begin_transaction_query>()
beginTransaction(w, t, d) == query_discard(w, t, d, "begin", <<>>)

\* commit(): query<commit_transaction_query>()
commit(w, t, d) == query_discard(w, t, d, "commit", <<>>)

\* TransactionGuard txn; opens the scope with beginTransaction()
TransactionGuardCtor(w, t, d) ==
  [beginTransaction(w, t, d)
     EXCEPT !.scope[t] = [state |-> "in", d |-> d, keys |-> {}]]

\* The scope is left: normally, and the transaction is committed; or by an
\* exception, and nothing is issued for the transaction, there being no
\* automatic rollback on error.
TransactionGuardDtor(w, t, thrown) ==
  IF thrown THEN [w EXCEPT !.scope[t].state = "thrown"]
  ELSE [commit(w, t, w.scope[t].d) EXCEPT !.scope[t].state = "exited"]

TxnFrame ==
  UNCHANGED <<sqlite3_configured, sqlite3_config_mutex, configCount, pc,
              call, autoreset, env, pure, once>>

\* { db::TransactionGuard txn; ...
TxnBegin(t, d) ==
  /\ pc[t] = "idle"
  /\ conn[connection_tls(t, d)] # NoHandle
  /\ scope[t].state # "in"
  /\ \A c \in CursorIds : cursors[c].live => cursors[c].owner # t
  /\ CanQuery(t, d, "begin")
  /\ Commit(TransactionGuardCtor(Enter(World), t, d))
  /\ TxnFrame

\* db::query<insert_query>(k, v); inside the scope
TxnInsert(t, args) ==
  /\ pc[t] = "idle"
  /\ scope[t].state = "in"
  /\ CanQuery(t, scope[t].d, "insert")
  /\ Commit([query_discard(Enter(World), t, scope[t].d, "insert", args)
               EXCEPT !.scope[t].keys = @ \cup {args[1]}])
  /\ TxnFrame

\* throw std::exception(); the exception leaves the scope
TxnThrow(t) ==
  /\ pc[t] = "idle"
  /\ scope[t].state = "in"
  /\ Commit(TransactionGuardDtor(Enter(World), t, TRUE))
  /\ TxnFrame

\* ... } the end of the scope is reached
TxnEnd(t) ==
  /\ pc[t] = "idle"
  /\ scope[t].state = "in"
  /\ CanQuery(t, scope[t].d, "commit")
  /\ Commit(TransactionGuardDtor(Enter(World), t, FALSE))
  /\ TxnFrame

\* auto fetch_row = db::query<select_query>(k); after the scope
TxnSelect(t, d, args) ==
  /\ scope[t].state # "in"
  /\ Query(t, d, "select", args)

InitTxn ==
  /\ Start
  /\ Literal
  /\ pure = NoPure
  /\ autoreset = TRUE
  /\ table = [d \in DBs |-> <<>>]
  /\ env = [threads |-> {"t1"}, dbs |-> {"db1"}, stmts |-> TxStmts,
            cursors |-> TxCursors, rows |-> TxRows, adv |-> TxAdv]

NextTxn ==
  \/ \E t \in env.threads, d \in env.dbs : ConfigLock(t, d)
  \/ \E t \in env.threads : ConfigCheck(t)
  \/ \E t \in env.threads : ConfigApply(t)
  \/ \E t \in env.threads : ConfigUnlock(t)
  \/ \E t \in env.threads : \E args \in ArgsOf("select") : Open(t, "select", args)
  \/ \E t \in env.threads, d \in env.dbs : TxnBegin(t, d)
  \/ \E t \in env.threads : \E args \in ArgsOf("insert") : TxnInsert(t, args)
  \/ \E t \in env.threads : TxnThrow(t)
  \/ \E t \in env.threads : TxnEnd(t)
  \/ \E t \in env.threads, d \in env.dbs :
       \E args \in ArgsOf("select") : TxnSelect(t, d, args)
  \/ \E t \in env.threads, c \in CursorIds, m \in OutputCounts : Step(t, c, m)
  \/ \E t \in env.threads, c \in CursorIds : Destroy(t, c)

SpecTxn == InitTxn /\ [][NextTxn]_vars

\* ------------------------------------------- saved_db_name, saved_query_str
\* The function-local statics of a program whose names are producer
\* functions: saved_db_name of Connection() of Database<d>, written <<d>>,
\* and saved_query_str of internal_get() of PreparedStmtCache<q> of
\* Database<d>, written <<d, q>>.  There is one of each in the process.
Statics == {<<d>> : d \in {"db1"}} \cup {<<d, q>> : d \in {"db1"}, q \in Queries}

\* st: the state of the static's initialization; calls: invocations of the
\* producer function; uses: for each thread, the sqlite3_open or
\* sqlite3_prepare_v3 calls made with the saved value; waited: a thread
\* reached the declaration while another was initializing; at: where each
\* thread is.
OnceStart ==
  [producers |-> TRUE,
   st     |-> [x \in Statics |-> "uninit"],
   calls  |-> [x \in Statics |-> 0],
   uses   |-> [x \in Statics |-> [t \in Threads |-> 0]],
   waited |-> [x \in Statics |-> FALSE],
   at     |-> [t \in Threads |-> <<"none">>]]

\* mutant: the flag of the static is tested without the guard, so a thread
\* that arrives during the initialization initializes too
StaticDeclUnguarded(o, t, x) ==
  IF o.st[x] = "done"
  THEN [o EXCEPT !.at[t] = <<"use", x>>]
  ELSE [o EXCEPT !.st[x] = "running", !.at[t] = <<"init", x>>]

\* Control passes through "static const auto saved = ...": the first
\* thread to arrive runs the initializer, a thread that arrives while the
\* initializer runs waits for it, and afterwards the declaration is skipped.
StaticDecl(o, t, x) ==
  IF o.st[x] = "done"
  THEN [o EXCEPT !.at[t] = <<"use", x>>]
  ELSE IF o.st[x] = "running"
  THEN [o EXCEPT !.at[t] = <<"wait", x>>, !.waited[x] = TRUE]
  ELSE [o EXCEPT !.st[x] = "running", !.at[t] = <<"init", x>>]

\* detail::maybe_invoke(name) on a producer function: return thing()
maybe_invoke(o, x) == [o EXCEPT !.calls[x] = @ + 1, !.st[x] = "done"]

\* thread t has a Connection for the database of static x
HasConnection(o, t, x) == o.uses[<<x[1]>>][t] > 0

OnceFrame ==
  UNCHANGED <<sqlite3_configured, sqlite3_config_mutex, configCount, pc, call,
              conn, handles, cache, stmts, cursors, table, prepCount,
              liveMax, tls, scope, lastDtor, lastErr, outs, autoreset, env, lock,
              lastOpen, pure>>

\* Thread t reaches the declaration of static x: in Connection(), which a
\* thread runs once for a database, or in internal_get() of a cache with no
\* free statement, which needs the thread's Connection.
StaticReach(t, x) ==
  /\ once.at[t] = <<"none">>
  /\ once.uses[x][t] < (IF Len(x) = 1 THEN 1 ELSE MaxUse)
  /\ Len(x) = 2 => HasConnection(once, t, x)
  /\ once' = StaticDecl(once, t, x)
  /\ OnceFrame

\* the initializer runs the producer function and the static is set
StaticInit(t) ==
  /\ once.at[t][1] = "init"
  /\ once' = [maybe_invoke(once, once.at[t][2])
                EXCEPT !.at[t] = <<"use", once.at[t][2]>>]
  /\ OnceFrame

\* the initialization a thread waited for has completed
StaticWake(t) ==
  /\ once.at[t][1] = "wait"
  /\ once.st[once.at[t][2]] = "done"
  /\ once' = [once EXCEPT !.at[t] = <<"use", once.at[t][2]>>]
  /\ OnceFrame

\* sqlite3_open(&saved_db_name[0], ...) or sqlite3_prepare_v3(..., 
\* saved_query_str ...) with the saved value
StaticUse(t) ==
  /\ once.at[t][1] = "use"
  /\ once' = [once EXCEPT !.uses[once.at[t][2]][t] = @ + 1,
                          !.at[t] = <<"none">>]
  /\ OnceFrame

InitOnce ==
  /\ Start
  /\ once = OnceStart
  /\ pure = NoPure
  /\ autoreset = TRUE
  /\ table = [d \in DBs |-> <<>>]
  /\ env = [threads |-> Threads, dbs |-> {"db1"}, stmts |-> 0,
            cursors |-> 0, rows |-> 0, adv |-> 0]

NextOnce ==
  \/ \E t \in env.threads, x \in Statics : StaticReach(t, x)
  \/ \E t \in env.threads : StaticInit(t)
  \/ \E t \in env.threads : StaticWake(t)
  \/ \E t \in env.threads : StaticUse(t)

SpecOnce == InitOnce /\ [][NextOnce]_vars

\* A cursor that lives in an object shared between threads is destroyed
\* by thread t, which is not the thread that created it: ~QueryResult runs
\* on t, and put_cb, which is &PreparedStmtCache<q>::put_tls, reaches the
\* thread_local cache of the thread that calls it.  t has used the database.
DestroyBy(t, c) ==
  /\ pc[t] = "idle"
  /\ cursors[c].live /\ cursors[c].owner # t
  /\ pc[cursors[c].owner] = "idle"
  /\ cursors[c].stmt # NoStmt
       => conn[connection_tls(t, cursors[c].put_cb[1])] # NoHandle
  /\ Commit(QueryResultDtor(Enter(World), t, c))
  /\ UNCHANGED <<sqlite3_configured, sqlite3_config_mutex, configCount, pc,
                 call, autoreset, env,
                 pure, once>>

InitHand ==
  /\ Start
  /\ Literal
  /\ pure = NoPure
  /\ autoreset = TRUE
  /\ table = [d \in DBs |-> <<>>]
  /\ env = [threads |-> Threads, dbs |-> {"db1"}, stmts |-> HdStmts,
            cursors |-> HdCursors, rows |-> HdRows, adv |-> HdAdv]

NextHand ==
  \/ Next
  \/ \E t \in env.threads, c \in CursorIds : DestroyBy(t, c)

SpecHand == InitHand /\ [][NextHand]_vars

\* Thread t ends: the cursors it created have been destroyed.
ThreadExit(t) ==
  /\ pc[t] = "idle"
  /\ \A c \in CursorIds : cursors[c].live => cursors[c].owner # t
  /\ Commit(thread_exit(Enter(World), t))
  /\ pc' = [pc EXCEPT ![t] = "exited"]
  /\ UNCHANGED <<sqlite3_configured, sqlite3_config_mutex, configCount,
                 call, autoreset, env, pure, once>>

InitExit ==
  /\ Start
  /\ Literal
  /\ pure = NoPure
  /\ autoreset = TRUE
  /\ table = [d \in DBs |-> <<>>]
  /\ env = [threads |-> {"t1"}, dbs |-> DBs, stmts |-> ExStmts,
            cursors |-> ExCursors, rows |-> ExRows, adv |-> ExAdv]

NextExit ==
  \/ Next
  \/ \E t \in env.threads : ThreadExit(t)

SpecExit == InitExit /\ [][NextExit]_vars

\* the same program with room for a third statement
InitLeak ==
  /\ Start
  /\ Literal
  /\ pure = NoPure
  /\ autoreset = TRUE
  /\ env = [threads |-> {"t1"}, dbs |-> {"db1"}, stmts |-> LkStmts,
            cursors |-> LkCursors, rows |-> LkRows, adv |-> LkAdv]
  /\ table = [d \in DBs |-> <<>>]

SpecLeak == InitLeak /\ [][NextSeq]_vars

\* ... and the thread ends
NextGone ==
  \/ NextSeq
  \/ \E t \in env.threads : ThreadExit(t)

SpecGone == InitLeak /\ [][NextGone]_vars

\* another process takes the write lock of database file d
OtherLock(d) ==
  /\ ~lock[d].held
  /\ lock' = [lock EXCEPT ![d] = [held |-> TRUE, yields |-> 0]]
  /\ UNCHANGED <<sqlite3_configured, sqlite3_config_mutex, configCount, pc,
                 call, conn, handles, cache, stmts, cursors, table, prepCount, liveMax, tls, scope,
                 lastDtor, lastErr, outs, autoreset, env, lastOpen, pure, once>>

\* the other process commits and releases the lock
OtherUnlock(d) ==
  /\ lock[d].held
  /\ lock' = [lock EXCEPT ![d].held = FALSE]
  /\ UNCHANGED <<sqlite3_configured, sqlite3_config_mutex, configCount, pc,
                 call, conn, handles, cache, stmts, cursors, table, prepCount, liveMax, tls, scope,
                 lastDtor, lastErr, outs, autoreset, env, lastOpen, pure, once>>

\* query<q>(args) whose step meets the lock and waits in the busy handler:
\* the handler has yielded once and the thread stays inside the call.  The
\* thread-local effects of the call are applied when it ends.
QueryBusy(t, d, q, args) ==
  /\ pc[t] = "idle"
  /\ conn[connection_tls(t, d)] # NoHandle
  /\ CanQuery(t, d, q)
  /\ LET w == query(Enter(World), t, d, q, args, NewCursor, SQLITE_OK)
     IN w.blocked /\ lock' = w.lock
  /\ pc' = [pc EXCEPT ![t] = "busy"]
  /\ call' = [call EXCEPT ![t] = [d |-> d, q |-> q, args |-> args]]
  /\ UNCHANGED <<sqlite3_configured, sqlite3_config_mutex, configCount,
                 conn, handles, cache, stmts, cursors, table, prepCount, liveMax, tls, scope,
                 lastDtor, lastErr, outs, autoreset, env, lastOpen, pure, once>>

\* the engine tries again, meets the lock again, the handler yields again
BusyYield(t) ==
  /\ pc[t] = "busy"
  /\ LET w == query(Enter(World), t, call[t].d, call[t].q, call[t].args,
                    NewCursor, SQLITE_OK)
     IN w.blocked /\ lock' = w.lock
  /\ UNCHANGED <<sqlite3_configured, sqlite3_config_mutex, configCount, pc,
                 call, conn, handles, cache, stmts, cursors, table, prepCount, liveMax, tls, scope,
                 lastDtor, lastErr, outs, autoreset, env, lastOpen, pure, once>>

\* the engine tries again and the lock is gone: the step is made and the
\* query() call returns its cursor
BusyDone(t) ==
  /\ pc[t] = "busy"
  /\ Commit(query(Enter(World), t, call[t].d, call[t].q, call[t].args,
                  NewCursor, SQLITE_OK))
  /\ pc' = [pc EXCEPT ![t] = "idle"]
  /\ call' = [call EXCEPT ![t] = NoCall]
  /\ UNCHANGED <<sqlite3_configured, sqlite3_config_mutex, configCount,
                 autoreset, env, pure, once>>

\* the program next to another process that writes to the same file
NextBusy ==
  \/ Next
  \/ \E d \in env.dbs : OtherLock(d)
  \/ \E d \in env.dbs : OtherUnlock(d)
  \/ \E t \in env.threads, d \in env.dbs, q \in Queries :
       \E args \in ArgsOf(q) : QueryBusy(t, d, q, args)
  \/ \E t \in env.threads : BusyYield(t)
  \/ \E t \in env.threads : BusyDone(t)

SpecBusy == InitBusy /\ [][NextBusy]_vars

\* query<q>(args) with arguments of a type that has a user_serialize_fn
QueryUser(t, d, q, args) ==
  /\ pc[t] = "idle"
  /\ conn[connection_tls(t, d)] # NoHandle
  /\ CanQuery(t, d, q)
  /\ Commit(query_serialized(Enter(World), t, d, q, args, NewCursor,
                             SQLITE_OK))
  /\ UNCHANGED <<sqlite3_configured, sqlite3_config_mutex, configCount, pc,
                 call, autoreset, env, pure, once>>

\* a program that also passes values of user types to query()
NextStatic ==
  \/ Next
  \/ \E t \in env.threads, d \in env.dbs, q \in Queries :
       \E args \in ArgsOf(q) : QueryUser(t, d, q, args)

SpecStatic == Init /\ [][NextStatic]_vars

\* the sqlite3_prepare_v3 calls of a cache that failed
Failures(key) ==
  prepCount[key] - Cardinality({s \in 1..Len(stmts) : stmts[s].home = key})

\* query<q>(args) whose sqlite3_prepare_v3 fails: the cache of q has no free
\* statement, so that internal_get prepares
PrepareFail(t, d, q, args) ==
  /\ pc[t] = "idle"
  /\ conn[connection_tls(t, d)] # NoHandle
  /\ CacheEmpty(PreparedStmtCache(World, t, singleton_tls(t, d, q)),
                singleton_tls(t, d, q))
  /\ Failures(singleton_tls(t, d, q)) < MaxFail
  /\ Commit(query(Enter(World), t, d, q, args, NewCursor, SQLITE_ERROR))
  /\ UNCHANGED <<sqlite3_configured, sqlite3_config_mutex, configCount, pc,
                 call, autoreset, env, pure, once>>

\* the query() calls of a program some of whose preparations fail
NextFault ==
  \/ Next
  \/ \E t \in env.threads, d \in env.dbs, q \in Queries :
       \E args \in ArgsOf(q) : PrepareFail(t, d, q, args)

SpecFault == InitFault /\ [][NextFault]_vars

\* ===================================================================
\* The dispatchers of query() and of operator(), followed on the values
\* ===================================================================
IntMin  == -(2^(IntBits - 1))
IntMax  == 2^(IntBits - 1) - 1
UintMax == 2^IntBits - 1

\* Types are written outermost layer first: <<"optional", "int">> is
\* std::optional<int64_t>.
Wrapped(n, b) == [i \in 1..n |-> "optional"] \o <<b>>

\* the types bind_dispatcher has a branch for, under the optional layers
BindBaseTypes == {"int", "uint", "cstr", "string", "blob", "blob_view"}

\* A C++ value: depth is the number of optional layers that hold a value;
\* with all of them present the value is n (integers) or the bytes s, whose
\* storage pointer is null when ptr is FALSE (an empty view).
Blank == [n |-> 0, s |-> "", ptr |-> TRUE]
BaseValues(b) ==
  CASE b = "int"  -> {[Blank EXCEPT !.n = v] : v \in {IntMin, -1, 0, IntMax}}
    [] b = "uint" -> {[Blank EXCEPT !.n = v] : v \in {0, IntMax + 1, UintMax}}
    [] b = "blob_view" ->
         {[Blank EXCEPT !.s = "b"], Blank, [Blank EXCEPT !.ptr = FALSE]}
    [] OTHER -> {[Blank EXCEPT !.s = v] : v \in {"", "a"}}

Value(type, depth, v) ==
  [type |-> type, depth |-> depth, n |-> v.n, s |-> v.s, ptr |-> v.ptr]

ValuesOf(n, b) ==
  {Value(Wrapped(n, b), n, v) : v \in BaseValues(b)}
    \cup {Value(Wrapped(n, b), d, Blank) : d \in 0..(n - 1)}

nullopt == Value(<<"nullopt">>, 0, Blank)

\* what a caller can pass to query()
ArgValues ==
  {nullopt} \cup UNION {ValuesOf(n, b) : n \in 0..MaxNest, b \in BindBaseTypes}

\* ----------------------------------------------- values inside the engine
SqlNull == [t |-> "NULL", n |-> 0, s |-> ""]
SqlInteger(v) == [t |-> "INTEGER", n |-> v, s |-> ""]

\* conversion of a C++ integer to sqlite3_int64
ToInt64(v) == ((v - IntMin) % 2^IntBits) + IntMin

sqlite3_bind_int64(v) == SqlInteger(ToInt64(v))
sqlite3_bind_text(ptr, bytes) ==
  IF ptr THEN [t |-> "TEXT", n |-> 0, s |-> bytes] ELSE SqlNull
sqlite3_bind_blob(ptr, bytes) ==
  IF ptr THEN [t |-> "BLOB", n |-> 0, s |-> bytes] ELSE SqlNull
sqlite3_bind_null == SqlNull

\* ------------------------------------------------------- bind_dispatcher
\* b is the state of the fold: idx and the sqlite3_bind_* calls made
NoBinds == [idx |-> 1, calls |-> <<>>]

BindCall(b, fn, val) ==
  [b EXCEPT !.calls = Append(@, [fn |-> fn, idx |-> b.idx, val |-> val])]

RECURSIVE bind_dispatcher(_, _)
\* mutant: the branch of a present optional falls through to idx++
BindDispatcherNoReturn(b, arg) ==
  LET kind == Head(arg.type)
      b1 ==
        CASE kind \in {"int", "uint"} ->
               BindCall(b, "sqlite3_bind_int64", sqlite3_bind_int64(arg.n))
          [] kind \in {"cstr", "string"} ->
               BindCall(b, "sqlite3_bind_text", sqlite3_bind_text(arg.ptr, arg.s))
          [] kind \in {"blob", "blob_view"} ->
               BindCall(b, "sqlite3_bind_blob", sqlite3_bind_blob(arg.ptr, arg.s))
          [] kind = "nullopt" ->
               BindCall(b, "sqlite3_bind_null", sqlite3_bind_null)
          [] kind = "optional" ->
               IF arg.depth > 0
               THEN bind_dispatcher(b, [arg EXCEPT !.type = Tail(@),
                                                   !.depth = @ - 1])
               ELSE BindCall(b, "sqlite3_bind_null", sqlite3_bind_null)
  IN [b1 EXCEPT !.idx = @ + 1]

\* mutant: an absent optional is bound as an empty text
BindDispatcherAbsentEmpty(b, arg) ==
  LET kind == Head(arg.type) IN
  IF kind = "optional" /\ arg.depth > 0
  THEN bind_dispatcher(b, [arg EXCEPT !.type = Tail(@), !.depth = @ - 1])
  ELSE
    LET b1 ==
          CASE kind \in {"int", "uint"} ->
                 BindCall(b, "sqlite3_bind_int64", sqlite3_bind_int64(arg.n))
            [] kind \in {"cstr", "string"} ->
                 BindCall(b, "sqlite3_bind_text",
                          sqlite3_bind_text(arg.ptr, arg.s))
            [] kind \in {"blob", "blob_view"} ->
                 BindCall(b, "sqlite3_bind_blob",
                          sqlite3_bind_blob(arg.ptr, arg.s))
            [] kind = "nullopt" ->
                 BindCall(b, "sqlite3_bind_null", sqlite3_bind_null)
            [] kind = "optional" ->
                 BindCall(b, "sqlite3_bind_text", sqlite3_bind_text(TRUE, ""))
    IN [b1 EXCEPT !.idx = @ + 1]

\* bind_dispatcher(arg, self): one sqlite3_bind_* call at idx, then idx++;
\* a present optional calls self(*arg, self) and returns
bind_dispatcher(b, arg) ==
  LET kind == Head(arg.type) IN
  IF kind = "optional" /\ arg.depth > 0
  THEN bind_dispatcher(b, [arg EXCEPT !.type = Tail(@), !.depth = @ - 1])
  ELSE
    LET b1 ==
          CASE kind \in {"int", "uint"} ->
                 BindCall(b, "sqlite3_bind_int64", sqlite3_bind_int64(arg.n))
            [] kind \in {"cstr", "string"} ->
                 BindCall(b, "sqlite3_bind_text",
                          sqlite3_bind_text(arg.ptr, arg.s))
            [] kind \in {"blob", "blob_view"} ->
                 BindCall(b, "sqlite3_bind_blob",
                          sqlite3_bind_blob(arg.ptr, arg.s))
            [] kind \in {"nullopt", "optional"} ->
                 BindCall(b, "sqlite3_bind_null", sqlite3_bind_null)
    IN [b1 EXCEPT !.idx = @ + 1]

\* A query() call followed through its fold expression: k arguments have
\* been dispatched, arg being the latest.
InitBind ==
  /\ Start
  /\ Literal
  /\ autoreset = TRUE
  /\ env = [threads |-> {"t1"}, dbs |-> {"db1"}, stmts |-> MaxStmts,
            cursors |-> MaxCursors, rows |-> MaxRows, adv |-> MaxAdv]
  /\ table = [d \in DBs |-> <<>>]
  /\ pure = [phase |-> "bind", k |-> 0, binds |-> NoBinds, arg |-> nullopt]

\* the fold expression dispatches the next argument, a
BindArg(a) ==
  /\ pure.phase = "bind"
  /\ pure.k < MaxArgs
  /\ pure' = [pure EXCEPT !.k = @ + 1, !.binds = bind_dispatcher(@, a),
                          !.arg = a]
  /\ UNCHANGED <<sqlite3_configured, sqlite3_config_mutex, configCount, pc,
                 call, conn, handles, cache, stmts, cursors, table, prepCount, liveMax, tls, scope,
                 lastDtor, lastErr, outs, autoreset, env, lock, lastOpen, once>>

NextBind == \E a \in ArgValues : BindArg(a)

SpecBind == InitBind /\ [][NextBind]_vars

\* ----------------------------------------------------- column_dispatcher
\* the values a column of a row can hold
EngineValues ==
  {SqlNull, SqlInteger(IntMin), SqlInteger(IntMax),
   [t |-> "TEXT", n |-> 0, s |-> "a"], [t |-> "BLOB", n |-> 0, s |-> "b"]}

sqlite3_column_type(col) == col.t

\* the engine's conversion of a column to a 64-bit integer; none of the
\* texts and blobs of EngineValues is a numeral
sqlite3_column_int64(col) == IF col.t = "INTEGER" THEN col.n ELSE 0

\* sqlite3_column_text with sqlite3_column_bytes: the bytes of a text or
\* blob, the decimal numeral of an integer, no bytes for NULL
sqlite3_column_text(col) ==
  CASE col.t = "INTEGER" -> ToString(col.n)
    [] col.t = "NULL" -> ""
    [] OTHER -> col.s

\* arg = sqlite3_column_int64(...): conversion to the output's integer type
FromInt64(kind, v) == IF kind = "uint" THEN v % 2^IntBits ELSE v

\* the types column_dispatcher has a branch for: these, std::optional of a
\* type it has a branch for, and a type with a user_deserialize_fn, written
\* <<"user">> \o the argument type of the function
ColumnBaseTypes == {"int", "uint", "string", "string_view"}
Layers(n) ==
  UNION {[1..k -> {"optional", "user"}] : k \in 0..n}
DestTypes ==
  {<<"nullopt">>}
    \cup {l \o <<b>> : l \in Layers(MaxNest), b \in ColumnBaseTypes}

sqlite3_column_count_of(row) == Len(row)

\* c is the state of the fold: idx, the column each output was read from,
\* and the row the statement is on
NoReads(row) == [idx |-> 0, reads |-> <<>>, row |-> row]

\* column idx of the row; the engine answers NULL for an index out of range
Column(c) == IF c.idx < Len(c.row) THEN c.row[c.idx + 1] ELSE SqlNull

\* the end of a branch of column_dispatcher that falls through to idx++
Filled(c, out) ==
  [c |-> [c EXCEPT !.reads = Append(@, c.idx), !.idx = @ + 1], out |-> out]

\* Extraction into sqlite::blob and sqlite::blob_view, which
\* test_blob_and_blob_view uses: the bytes of the column, as for
\* std::string and std::string_view.
column_dispatcher_blob(c, type) ==
  Filled(c, Value(type, 0, [Blank EXCEPT !.s = sqlite3_column_text(Column(c))]))

RECURSIVE column_dispatcher(_, _, _)
\* mutant: the branch of a non-NULL optional falls through to idx++
ColumnDispatcherNoReturn(c, type, old) ==
  LET kind == Head(type) IN
  CASE kind \in {"int", "uint"} ->
         Filled(c, Value(type, 0,
           [Blank EXCEPT !.n = FromInt64(kind, sqlite3_column_int64(Column(c)))]))
    [] kind \in {"string", "string_view"} ->
         Filled(c, Value(type, 0,
           [Blank EXCEPT !.s = sqlite3_column_text(Column(c))]))
    [] kind \in {"blob", "blob_view"} -> column_dispatcher_blob(c, type)
    [] kind = "nullopt" -> Filled(c, old)
    [] kind = "optional" ->
         IF sqlite3_column_type(Column(c)) = "NULL"
         THEN Filled(c, Value(type, 0, Blank))
         ELSE LET r == column_dispatcher(c, Tail(type), old)
              IN [c |-> [r.c EXCEPT !.idx = @ + 1],
                  out |-> [r.out EXCEPT !.type = type, !.depth = @ + 1]]
    [] kind = "user" ->
         LET r == column_dispatcher(c, Tail(type), old)
         IN [c |-> r.c, out |-> [r.out EXCEPT !.type = type]]

\* column_dispatcher(arg, self) on an output of the given type whose value
\* was old: the new value of the output and the state of the fold.  An
\* optional over a non-NULL column and a type with a converter call
\* self(...) on a temporary and return; the converter leaves the payload
\* as it is.
column_dispatcher(c, type, old) ==
  LET kind == Head(type) IN
  CASE kind \in {"int", "uint"} ->
         Filled(c, Value(type, 0,
           [Blank EXCEPT !.n = FromInt64(kind, sqlite3_column_int64(Column(c)))]))
    [] kind \in {"string", "string_view"} ->
         Filled(c, Value(type, 0,
           [Blank EXCEPT !.s = sqlite3_column_text(Column(c))]))
    [] kind \in {"blob", "blob_view"} -> column_dispatcher_blob(c, type)
    [] kind = "nullopt" -> Filled(c, old)
    [] kind = "optional" ->
         IF sqlite3_column_type(Column(c)) = "NULL"
         THEN Filled(c, Value(type, 0, Blank))
         ELSE LET r == column_dispatcher(c, Tail(type), old)
              IN [c |-> r.c,
                  out |-> [r.out EXCEPT !.type = type, !.depth = @ + 1]]
    [] kind = "user" ->
         LET r == column_dispatcher(c, Tail(type), old)
         IN [c |-> r.c, out |-> [r.out EXCEPT !.type = type]]

\* An advance on a produced row followed through its fold expression: j
\* output references have been dispatched, out being the latest.
InitColumn ==
  /\ Start
  /\ Literal
  /\ autoreset = TRUE
  /\ env = [threads |-> {"t1"}, dbs |-> {"db1"}, stmts |-> MaxStmts,
            cursors |-> MaxCursors, rows |-> MaxRows, adv |-> MaxAdv]
  /\ table = [d \in DBs |-> <<>>]
  /\ \E row \in [1..MaxCols -> EngineValues] :
       pure = [phase |-> "row", j |-> 0, cols |-> NoReads(row),
               type |-> <<"nullopt">>, out |-> nullopt]

\* the fold expression dispatches the next output reference, of the given
\* type; the guard of operator() lets no more outputs in than columns
ColumnArg(type) ==
  /\ pure.phase = "row"
  /\ pure.j < sqlite3_column_count_of(pure.cols.row)
  /\ LET r == column_dispatcher(pure.cols, type, nullopt)
     IN pure' = [pure EXCEPT !.j = @ + 1, !.cols = r.c, !.type = type,
                             !.out = r.out]
  /\ UNCHANGED <<sqlite3_configured, sqlite3_config_mutex, configCount, pc,
                 call, conn, handles, cache, stmts, cursors, table, prepCount, liveMax, tls, scope,
                 lastDtor, lastErr, outs, autoreset, env, lock, lastOpen, once>>

NextColumn == \E type \in DestTypes : ColumnArg(type)

SpecColumn == InitColumn /\ [][NextColumn]_vars

\* ------------------------------------------------------------ round trip
\* the optional layers alone
OptionalLayers(n) == UNION {[1..k -> {"optional"}] : k \in 0..n}

\* destinations of sqlite::blob and sqlite::blob_view values
BlobDestTypes ==
  {l \o <<b>> : l \in OptionalLayers(MaxNest), b \in {"blob", "blob_view"}}

\* The column that "select a, b from test" finds where a parameter of
\* "insert into test (a, b)" was stored: the columns of "create table test
\* (a, b)" have no declared type, so the engine stores integers, texts,
\* blobs and NULL as they are bound.
ColumnOfParam(val) ==
  CASE val.t = "INTEGER" -> SqlInteger(val.n)
    [] val.t = "NULL"    -> SqlNull
    [] OTHER             -> [t |-> val.t, n |-> 0, s |-> val.s]

\* One value followed from query<insert_query>(..., v) to the output of a
\* later fetch_row(std::nullopt, out) on the row it was stored in.
InitRound ==
  /\ Start
  /\ Literal
  /\ autoreset = TRUE
  /\ env = [threads |-> {"t1"}, dbs |-> {"db1"}, stmts |-> MaxStmts,
            cursors |-> MaxCursors, rows |-> MaxRows, adv |-> MaxAdv]
  /\ table = [d \in DBs |-> <<>>]
  /\ \E v \in ArgValues :
       pure = [phase |-> "arg", arg |-> v, binds |-> NoBinds, col |-> SqlNull,
               type |-> <<"nullopt">>, out |-> nullopt]

\* query() binds the value
RoundBind ==
  /\ pure.phase = "arg"
  /\ pure' = [pure EXCEPT !.phase = "bound",
                          !.binds = bind_dispatcher(NoBinds, pure.arg)]
  /\ UNCHANGED <<sqlite3_configured, sqlite3_config_mutex, configCount, pc,
                 call, conn, handles, cache, stmts, cursors, table, prepCount, liveMax, tls, scope,
                 lastDtor, lastErr, outs, autoreset, env, lock, lastOpen, once>>

\* the insert is executed and a later select is on the row
RoundStore ==
  /\ pure.phase = "bound"
  /\ pure' = [pure EXCEPT !.phase = "row",
                          !.col = ColumnOfParam(pure.binds.calls[1].val)]
  /\ UNCHANGED <<sqlite3_configured, sqlite3_config_mutex, configCount, pc,
                 call, conn, handles, cache, stmts, cursors, table, prepCount, liveMax, tls, scope,
                 lastDtor, lastErr, outs, autoreset, env, lock, lastOpen, once>>

\* the advance extracts the column into an output of the given type
RoundExtract(type) ==
  /\ pure.phase = "row"
  /\ pure' = [pure EXCEPT
       !.phase = "out", !.type = type,
       !.out = column_dispatcher(NoReads(<<pure.col>>), type, nullopt).out]
  /\ UNCHANGED <<sqlite3_configured, sqlite3_config_mutex, configCount, pc,
                 call, conn, handles, cache, stmts, cursors, table, prepCount, liveMax, tls, scope,
                 lastDtor, lastErr, outs, autoreset, env, lock, lastOpen, once>>

NextRound ==
  \/ RoundBind
  \/ RoundStore
  \/ \E type \in DestTypes \cup BlobDestTypes : RoundExtract(type)

SpecRound == InitRound /\ [][NextRound]_vars

\* ===================================================================
\* Properties
\* ===================================================================
\* the cursors that hold a statement
Held == {c \in CursorIds : cursors[c].live /\ cursors[c].stmt # NoStmt}

\* an advance of cursor c with m outputs that passes the column-count guard
ValidStep(c, m) ==
  /\ c \in Held
  /\ ~ColumnGuard(World, cursors[c], m)
  /\ \E t \in env.threads : Step(t, c, m)

\* C1: for a cursor over a result of n rows, advanced with no more outputs
\* than columns, the k-th advance (k <= n) returns true and delivers the
\* k-th row (its first m columns land in the m outputs), and the (n+1)-th
\* advance returns false.
C1_RowsInOrder ==
  /\ [](\A c \in Held :
          \A k \in 1..Len(cursors[c].advs) :
            /\ k <= Len(cursors[c].result)
                 => cursors[c].advs[k] = [ret |-> TRUE, row |-> cursors[c].result[k]]
            /\ k = Len(cursors[c].result) + 1 => ~cursors[c].advs[k].ret)
  /\ [][\A c \in CursorIds, m \in OutputCounts :
          (ValidStep(c, m) /\ Len(cursors[c].advs) < Len(cursors[c].result))
            => outs' = SubSeq(cursors[c].result[Len(cursors[c].advs) + 1], 1, m)]_vars

\* a cursor over two rows has delivered both, the second into two outputs,
\* and its third advance has returned false
C1_Witness ==
  \E c \in Held :
    /\ Len(cursors[c].result) = 2
    /\ Len(cursors[c].advs) = 3
    /\ ~cursors[c].advs[3].ret
    /\ outs = SubSeq(cursors[c].result[2], 1, 2)

\* C2: right after query() and before any advance the statement has been
\* executed once: resultCode() is SQLITE_ROW when a row matches and
\* SQLITE_DONE when none does, and an insert has taken effect.
C2_ExecutedByQuery ==
  \A c \in Held :
    cursors[c].advs = <<>> =>
      LET st == stmts[cursors[c].stmt] IN
      /\ cursors[c].nsteps = 1
      /\ st.state # "ready"
      /\ resultCode(World, c) =
           IF cursors[c].result # <<>> THEN SQLITE_ROW ELSE SQLITE_DONE
      /\ st.query = "select" => cursors[c].result = st.rows
      /\ st.query = "insert" =>
           \E i \in 1..Len(table[handles[st.db_handle].db]) :
             table[handles[st.db_handle].db][i] = st.bind

\* an insert cursor that was never advanced reports SQLITE_DONE, and its
\* row is the last of a table that held two rows before
C2_Witness ==
  \E c \in Held :
    LET st == stmts[cursors[c].stmt] IN
    /\ cursors[c].advs = <<>> /\ st.query = "insert"
    /\ cursors[c].ret = SQLITE_DONE
    /\ Len(table["db1"]) = 3 /\ table["db1"][3] = st.bind

\* C3 as claimed: the first engine step on the statement is made by the
\* first advance, and every advance makes exactly one step.
C3_FirstStepByAdvance ==
  \A c \in Held : cursors[c].nsteps = Len(cursors[c].advs)

\* C3 as amended: the statement is executed for the first time by query()
\* (one step in the cursor's constructor); the first advance makes no step;
\* every later advance that returns makes exactly one step when the first
\* advance delivered a row, and none when it reported no row.
C3_FirstStepByQuery ==
  \A c \in Held :
    cursors[c].nsteps =
      IF cursors[c].advs = <<>> \/ ~cursors[c].advs[1].ret
      THEN 1
      ELSE Len(cursors[c].advs)

\* a cursor advanced three times after a first delivered row: three
\* steps in all, the constructor's and one by each later advance
C3_Witness ==
  \E c \in Held : /\ Len(cursors[c].advs) = 3 /\ cursors[c].advs[1].ret
                   /\ cursors[c].nsteps = 3

\* C4: once an advance of a cursor has returned false, every later advance
\* of that cursor returns false.
C4_ExhaustedStays ==
  \A c \in Held :
    \A i \in 1..Len(cursors[c].advs), j \in 1..Len(cursors[c].advs) :
      (i < j /\ ~cursors[c].advs[i].ret) => ~cursors[c].advs[j].ret

\* C5: an advance with more outputs than columns raises an error before any
\* step and before any output is assigned: statements, cursors, table and
\* outputs are as they were.
C5_GuardBeforeStep ==
  [][\A t \in env.threads, c \in CursorIds, m \in OutputCounts :
       (Step(t, c, m) /\ c \in Held /\ ColumnGuard(World, cursors[c], m))
         => /\ lastErr' = SQLITE_ERROR
            /\ stmts' = stmts /\ cursors' = cursors /\ table' = table
            /\ cache' = cache /\ outs' = outs]_vars

\* an advance has just raised the error on a cursor that has a row to give
C5_Witness ==
  /\ lastErr = SQLITE_ERROR
  /\ \E c \in Held : cursors[c].ret = SQLITE_ROW /\ cursors[c].advs = <<>>
                     /\ stmts[cursors[c].stmt].pos = 1

\* the statements idle in a cache
Idle(key) ==
  (IF cache[key].first_free_stmt # NoStmt THEN {cache[key].first_free_stmt}
   ELSE {})
  \cup {cache[key].other_free_stmts[i] :
          i \in 1..Len(cache[key].other_free_stmts)}

\* C6: when a cursor holding a statement is destroyed, in whatever state
\* the statement is, the bindings are cleared, then the statement is reset,
\* then it is checked in to the cache it came from; it is not finalized.
C6_DestroyReturns ==
  lastDtor.stmt # NoStmt =>
    LET s == lastDtor.stmt IN
    /\ lastDtor.ops = <<"sqlite3_clear_bindings", "sqlite3_reset", "put_cb">>
    /\ lastDtor.key = stmts[s].home
    /\ s \in Idle(stmts[s].home)
    /\ stmts[s].state = "ready" /\ stmts[s].pos = 0
    /\ \A i \in 1..Len(stmts[s].bind) : stmts[s].bind[i] = NULL
    /\ ~stmts[s].finalized
    /\ \A c \in Held : cursors[c].stmt # s

\* a cursor has just been destroyed while its statement was on a row
C6_Witness ==
  /\ lastDtor.stmt # NoStmt
  /\ lastDtor.was = "row"
  /\ cache[lastDtor.key].first_free_stmt = lastDtor.stmt

\* C7: issuing the same query again and again on one thread, the results
\* being temporaries or assigned over the one cursor variable, prepares at
\* most one statement for that (thread, query).
C7_OnePreparation ==
  \A key \in CacheKeys : prepCount[key] <= 1

\* C8: a statement idle in a cache (slot or overflow list) is held by no
\* live cursor, and no handle occurs twice among the slot and the overflow
\* list of a cache.
C8_IdleNotHeld ==
  \A key \in CacheKeys :
    /\ \A c \in Held : cursors[c].stmt \notin Idle(key)
    /\ \A i \in 1..Len(cache[key].other_free_stmts) :
         /\ cache[key].other_free_stmts[i] # cache[key].first_free_stmt
         /\ \A j \in 1..Len(cache[key].other_free_stmts) :
              i # j => cache[key].other_free_stmts[i] # cache[key].other_free_stmts[j]

\* one statement idle in the slot and another in the overflow list
C8_Witness ==
  \E key \in CacheKeys :
    /\ cache[key].first_free_stmt # NoStmt
    /\ cache[key].other_free_stmts # <<>>

\* the thread that uses a statement handle: its owner when a cursor holds
\* it, the thread of the cache when it is idle
StmtUsers(s) ==
  {cursors[c].owner : c \in {c2 \in Held : cursors[c2].stmt = s}}
  \cup {key[1] : key \in {k \in CacheKeys : s \in Idle(k)}}

\* C9: no statement handle and no connection handle is held, checked out or
\* cached by two threads: each thread uses its own connection and caches.
C9_NothingShared ==
  /\ \A k1 \in ConnKeys, k2 \in ConnKeys :
       (k1 # k2 /\ conn[k1] # NoHandle) => conn[k1] # conn[k2]
  /\ \A k \in ConnKeys :
       conn[k] # NoHandle => handles[conn[k]].opener = k[1]
  /\ \A key \in CacheKeys :
       cache[key].constructed =>
         /\ cache[key].db_handle = conn[<<key[1], key[2]>>]
         /\ handles[cache[key].db_handle].opener = key[1]
  /\ \A s \in 1..Len(stmts) :
       /\ Cardinality(StmtUsers(s)) <= 1
       /\ \A t \in StmtUsers(s) :
            /\ stmts[s].home[1] = t
            /\ handles[stmts[s].db_handle].opener = t

\* both threads hold a cursor for the same query of the same database
C9_Witness ==
  \E c1 \in Held, c2 \in Held :
    /\ cursors[c1].owner # cursors[c2].owner
    /\ cursors[c1].put_cb = cursors[c2].put_cb
    /\ cursors[c1].stmt # cursors[c2].stmt

\* C10: the engine-wide configuration is applied exactly once, before any
\* thread opens a connection handle; a thread that arrives later finds the
\* flag set and skips it.
C10_ConfiguredOnce ==
  /\ configCount <= 1
  /\ sqlite3_configured <=> configCount = 1
  /\ \A t \in Threads :
       /\ pc[t] = "config" => configCount = 0
       /\ pc[t] \in {"unlock", "open"} => configCount = 1
  /\ \A h \in 1..Len(handles) : handles[h].cfg = 1

\* two threads have opened handles to two different databases
C10_Witness ==
  \E h1 \in 1..Len(handles), h2 \in 1..Len(handles) :
    /\ handles[h1].opener # handles[h2].opener
    /\ handles[h1].db # handles[h2].db
    /\ configCount = 1

\* C12: when sqlite3_open fails, the error raised carries the code it
\* returned, the open is made once in that call, neither the busy handler is
\* installed nor the hook run, no Connection exists for the thread
\* afterwards, and the call produces nothing: no handle, statement or cursor.
C12_OpenFailure ==
  /\ [](lastOpen.ret \notin {"none", SQLITE_OK} =>
          /\ lastErr = lastOpen.ret
          /\ lastOpen.opens = 1
          /\ ~lastOpen.busy_handler /\ ~lastOpen.hook
          /\ conn[lastOpen.key] = NoHandle
          /\ \A h \in 1..Len(handles) :
               <<handles[h].opener, handles[h].db>> # lastOpen.key)
  /\ [][\A t \in env.threads :
          OpenFail(t) => /\ handles' = handles /\ conn' = conn
                         /\ cache' = cache /\ stmts' = stmts
                         /\ cursors' = cursors /\ pc'[t] = "idle"]_vars

\* an open has just failed with SQLITE_CANTOPEN in a process that has
\* been configured, and the thread has no Connection
C12_Witness ==
  /\ lastOpen.ret = SQLITE_CANTOPEN /\ lastErr = SQLITE_CANTOPEN
  /\ sqlite3_configured
  /\ conn[lastOpen.key] = NoHandle

\* C13: when a checkout has to prepare a statement and sqlite3_prepare_v3
\* fails, error{code} leaves query(): the distinguished slot and the free
\* list are unchanged, no statement and no cursor come into being, and the
\* cache is left empty, so that the next checkout prepares again.
C13_PrepareFailure ==
  [][\A t \in env.threads, d \in env.dbs, q \in Queries :
       \A args \in ArgsOf(q) :
         PrepareFail(t, d, q, args) =>
           LET key == singleton_tls(t, d, q) IN
           /\ lastErr' = SQLITE_ERROR
           /\ cache'[key].constructed
           /\ cache'[key].first_free_stmt = NoStmt
           /\ cache'[key].other_free_stmts = <<>>
           /\ \A k \in CacheKeys \ {key} : cache'[k] = cache[k]
           /\ stmts' = stmts
           /\ cursors' = cursors
           /\ prepCount'[key] = prepCount[key] + 1]_vars

\* a preparation failed twice and the checkout after it prepared the
\* statement that a cursor now holds
C13_Witness ==
  \E c \in Held :
    /\ prepCount[stmts[cursors[c].stmt].home] = 3
    /\ Failures(stmts[cursors[c].stmt].home) = 2
    /\ lastErr = "none"
\* C11: with the busy handler installed, a step that meets a locked
\* database never ends with the busy result: no advance returns it and no
\* cursor records it as its result code.
C11_NeverBusy ==
  \A c \in CursorIds : cursors[c].live => resultCode(World, c) # SQLITE_BUSY
\* the sqlite3_bind_* function that binds argument a: the one of the value
\* inside its optional layers, sqlite3_bind_null when there is none
BindFnOf(a) ==
  IF a.depth < Len(a.type) - 1 \/ a.type = <<"nullopt">>
  THEN "sqlite3_bind_null"
  ELSE CASE a.type[Len(a.type)] \in {"int", "uint"} -> "sqlite3_bind_int64"
         [] a.type[Len(a.type)] \in {"cstr", "string"} -> "sqlite3_bind_text"
         [] OTHER -> "sqlite3_bind_blob"

\* C14: the i-th argument of a query() call is bound to parameter i and
\* after k arguments the index is k+1: every argument, a present optional
\* included, makes one bind call and advances the index once, and an
\* absent optional or std::nullopt binds null.
C14_BindIndex ==
  /\ [](pure.phase = "bind" =>
          /\ pure.binds.idx = pure.k + 1
          /\ Len(pure.binds.calls) = pure.k
          /\ \A i \in 1..pure.k : pure.binds.calls[i].idx = i)
  /\ [][\A a \in ArgValues :
          BindArg(a) =>
            /\ pure'.binds.calls[pure.k + 1].fn = BindFnOf(a)
            /\ SubSeq(pure'.binds.calls, 1, pure.k) = pure.binds.calls]_vars

\* two arguments were dispatched, the first bound null, the second a
\* present optional of a present optional of an integer, and the index is 3
C14_Witness ==
  /\ pure.phase = "bind"
  /\ pure.k = 2
  /\ pure.binds.idx = 3
  /\ pure.arg.type = <<"optional", "optional", "int">>
  /\ pure.arg.depth = 2
  /\ pure.binds.calls[2].fn = "sqlite3_bind_int64"
  /\ pure.binds.calls[1].fn = "sqlite3_bind_null"
\* C15: on a produced row the j-th output reference of an advance is
\* filled from column j-1 and consumes one column index, whatever its type:
\* an integer gets the column's integer, a string its bytes, std::nullopt
\* leaves the output alone and skips the column, and an optional or a type
\* with a converter, nested or not, consumes one index, not two.
C15_ColumnIndex ==
  pure.phase = "row" =>
    /\ pure.cols.idx = pure.j
    /\ Len(pure.cols.reads) = pure.j
    /\ \A i \in 1..pure.j : pure.cols.reads[i] = i - 1
    /\ pure.j >= 1 =>
         LET col  == pure.cols.row[pure.j]
             type == pure.type
             base == type[Len(type)]
             full == \A i \in 1..(Len(type) - 1) :
                       type[i] = "optional" => col.t # "NULL"
         IN /\ pure.out.type = type
            /\ (full /\ base \in {"int", "uint"})
                 => pure.out.n = FromInt64(base, sqlite3_column_int64(col))
            /\ (full /\ base \in {"string", "string_view"})
                 => pure.out.s = sqlite3_column_text(col)
            /\ type = <<"nullopt">> => pure.out = nullopt

\* both columns of a row were extracted, the second, an integer, into an
\* optional of a converter-backed type
C15_Witness ==
  /\ pure.phase = "row"
  /\ pure.j = 2
  /\ pure.cols.row[2].t = "INTEGER"
  /\ pure.type = <<"optional", "user", "int">>
  /\ pure.out.depth = 1
  /\ pure.out.n = pure.cols.row[2].n
  /\ pure.cols.idx = 2
\* operator== of two values of one type: the optional layers agree and so
\* do the integers or the bytes
SameValue(a, b) ==
  /\ a.type = b.type
  /\ a.depth = b.depth
  /\ a.n = b.n
  /\ a.s = b.s

\* C16: a value of a bindable type T that is bound, stored and extracted
\* into a T comes back equal.
C16_RoundTrip ==
  (pure.phase = "out" /\ pure.type = pure.arg.type)
    => SameValue(pure.out, pure.arg)
\* the value inside the outermost optional layer of a present optional
Unwrap(v) == [v EXCEPT !.type = Tail(@), !.depth = @ - 1]

\* C17: an absent optional and std::nullopt are stored as NULL; a NULL
\* column extracted into an optional output leaves it absent; a column that
\* is not NULL extracted into an optional output leaves it present, holding
\* what the extraction of the column into the unwrapped type yields.
C17_OptionalComposition ==
  /\ (/\ pure.phase \in {"row", "out"}
      /\ \/ pure.arg = nullopt
         \/ Head(pure.arg.type) = "optional" /\ pure.arg.depth = 0)
       => pure.col = SqlNull
  /\ (pure.phase = "out" /\ pure.type \in DestTypes
        /\ Head(pure.type) = "optional")
       => IF sqlite3_column_type(pure.col) = "NULL"
          THEN pure.out = Value(pure.type, 0, Blank)
          ELSE /\ pure.out.depth >= 1
               /\ Unwrap(pure.out) =
                    column_dispatcher(NoReads(<<pure.col>>), Tail(pure.type),
                                      nullopt).out

\* a present optional string was stored as a text and came back as a
\* present optional
C17_Witness ==
  /\ pure.phase = "out"
  /\ pure.arg.type = <<"optional", "string">>
  /\ pure.arg.depth = 1
  /\ pure.col.t = "TEXT"
  /\ pure.type = <<"optional", "string">>
  /\ pure.out.depth = 1
  /\ pure.out.s = pure.arg.s
C19_StepCodeRetained ==
  /\ [](/\ \A c \in Held :
              resultCode(World, c) = stmts[cursors[c].stmt].rc
        /\ lastErr \in {"none", SQLITE_CANTOPEN, SQLITE_ERROR})
  /\ [][\A c \in Held, m \in OutputCounts :
          (/\ stmts'[cursors[c].stmt].rc \notin {SQLITE_ROW, SQLITE_DONE}
           /\ ~ColumnGuard(World, cursors[c], m)
           /\ \E t \in env.threads : Step(t, c, m))
            => /\ lastErr' = "none"
               /\ resultCode(World, c)' = stmts'[cursors[c].stmt].rc
               /\ Len(cursors'[c].advs) = Len(cursors[c].advs) + 1
               /\ ~cursors'[c].advs[Len(cursors'[c].advs)].ret]_vars
  /\ [][stmts' # stmts => lastErr' = "none"]_vars

\* the step of an advance ended with SQLITE_MISUSE: the cursor holds the
\* code, the advance returned false and nothing was thrown
C19_Witness ==
  \E c \in Held :
    /\ resultCode(World, c) = SQLITE_MISUSE
    /\ stmts[cursors[c].stmt].rc = SQLITE_MISUSE
    /\ cursors[c].nsteps >= 2
    /\ ~cursors[c].advs[Len(cursors[c].advs)].ret
    /\ lastErr = "none"
\* ------------------------------------------------------------------ C20
\* the statements that are checked out: prepared, and not idle in the cache
\* they were prepared for
CheckedOut ==
  {s \in 1..Len(stmts) : ~stmts[s].finalized /\ s \notin Idle(stmts[s].home)}

\* the live cursors whose stmt member is handle s
Holders(s) == {c \in CursorIds : cursors[c].live /\ cursors[c].stmt = s}

\* C20: a checked-out statement is held by exactly one cursor at any time,
\* and after a move assignment the source holds no statement.
C20_OneHolder ==
  /\ \A s \in CheckedOut : Cardinality(Holders(s)) = 1
  /\ \A c \in CursorIds :
       (cursors[c].live /\ cursors[c].stmt # NoStmt)
         => cursors[c].stmt \in CheckedOut

\* ------------------------------------------------------------------ C26
\* C26: conservation of statements: every statement ever prepared is either
\* idle in the cache it was prepared for and held by no cursor, or held by
\* exactly one live cursor.
C26_Conservation ==
  \A s \in 1..Len(stmts) :
    IF s \in Idle(stmts[s].home)
    THEN Holders(s) = {}
    ELSE Cardinality(Holders(s)) = 1

\* ------------------------------------------------------------------ C22
\* the statements prepared for the cache key
PreparedFor(key) == {s \in 1..Len(stmts) : stmts[s].home = key}

\* C22: for every thread and query the number of statements ever prepared
\* never exceeds the largest number of cursors of that query alive at the
\* same time on that thread.
C22_HighWaterMark ==
  \A key \in CacheKeys : Cardinality(PreparedFor(key)) <= liveMax[key]

\* ------------------------------------------------------------------ C27
\* C27: every statement idle in the cache of (thread T, query Q) was
\* prepared from Q's text on T's own connection.
C27_OwnCache ==
  \A key \in CacheKeys :
    \A s \in Idle(key) :
      /\ stmts[s].query = key[3]
      /\ stmts[s].db_handle = conn[connection_tls(key[1], key[2])]

\* ------------------------------------------------------------------ C23
\* the thread has ended
Exited(t) == pc[t] = "exited"

\* C23: at thread exit every cache of the thread is torn down, finalizing
\* all its idle statements, before the close of the Connection it depends
\* on is requested.
C23_CacheBeforeConnection ==
  /\ [](\A t \in Threads :
          \A i \in 1..Len(tls[t].log), j \in 1..Len(tls[t].log) :
            (/\ tls[t].log[i].op = "sqlite3_close_v2"
             /\ tls[t].log[j].op = "sqlite3_finalize"
             /\ tls[t].log[j].key[2] = tls[t].log[i].key[2]) => j < i)
  /\ [][\A t \in Threads :
          (~Exited(t) /\ Exited(t)') =>
            /\ \A key \in CacheKeys :
                 key[1] = t =>
                   /\ cache'[key] = NoCache
                   /\ \A s \in Idle(key) : stmts'[s].finalized
                   /\ cache[key].constructed =>
                        \E j \in 1..Len(tls'[t].log) :
                          /\ tls'[t].log[j].op = "sqlite3_finalize"
                          /\ tls'[t].log[j].key = key
            /\ \A d \in DBs :
                 conn[connection_tls(t, d)] # NoHandle =>
                   \E i \in 1..Len(tls'[t].log) :
                     /\ tls'[t].log[i].op = "sqlite3_close_v2"
                     /\ tls'[t].log[i].arg = conn[connection_tls(t, d)]]_vars

\* a thread that used two databases, the cache of each with a statement to
\* finalize, has ended
C23_Witness ==
  \E t \in Threads :
    /\ Exited(t)
    /\ Cardinality({tls[t].log[i].key :
                      i \in {j \in 1..Len(tls[t].log) :
                               /\ tls[t].log[j].op = "sqlite3_finalize"
                               /\ tls[t].log[j].arg # NoStmt}}) = 2
    /\ Cardinality({i \in 1..Len(tls[t].log) :
                      tls[t].log[i].op = "sqlite3_close_v2"}) = 2

\* ------------------------------------------------------------------ C24
\* C24: when a thread has exited, every statement prepared on a connection
\* of the thread is finalized and the connection's handle is closed.
C24_AllFinalized ==
  \A t \in Threads :
    Exited(t) =>
      \A h \in 1..Len(handles) :
        handles[h].opener = t =>
          /\ Unfinalized(World, h) = {}
          /\ handles[h].close = "closed"

\* ------------------------------------------------------------------ C25
\* C25: a database name or query text given as a producer function is
\* invoked exactly once in the process, at the first connection or
\* preparation and not before, whatever the interleaving of the threads,
\* and every connection or preparation uses the saved result.
C25_InvokedOnce ==
  \A x \in Statics :
    /\ once.calls[x] <= 1
    /\ once.calls[x] = 1 <=> once.st[x] = "done"
    /\ once.st[x] = "uninit" =>
         \A t \in Threads : once.uses[x][t] = 0 /\ once.at[t] # <<"use", x>>
    /\ \A t \in Threads :
         (once.uses[x][t] > 0 \/ once.at[t] = <<"use", x>>) => once.calls[x] = 1

\* both threads connected, one of them having waited for the other's
\* initialization of saved_db_name, and both prepared a statement
C25_Witness ==
  \E d \in DBs, q \in Queries :
    /\ <<d, q>> \in Statics
    /\ once.waited[<<d>>]
    /\ \A t \in Threads : once.uses[<<d>>][t] = 1 /\ once.uses[<<d, q>>][t] >= 1
    /\ once.calls[<<d>>] = 1 /\ once.calls[<<d, q>>] = 1

\* ------------------------------------------------------------------ C21
\* the cursors of a select made after the thread's last transaction scope,
\* not advanced yet, for a key inserted inside that scope
SelectsAfter(how) ==
  {c \in Held : /\ stmts[cursors[c].stmt].query = "select"
                /\ cursors[c].nsteps = 1
                /\ scope[cursors[c].owner].state = how
                /\ stmts[cursors[c].stmt].bind[1] \in scope[cursors[c].owner].keys}

\* C21: after a transaction scope left by an exception a select finds no
\* row inserted inside it (resultCode() is SQLITE_DONE), and after a scope
\* left normally a select finds each of them (resultCode() is SQLITE_ROW).
C21_TransactionScope ==
  /\ \A c \in SelectsAfter("thrown") : resultCode(World, c) = SQLITE_DONE
  /\ \A c \in SelectsAfter("exited") : resultCode(World, c) = SQLITE_ROW

====
